---- MODULE Spec2Model ----
(***************************************************************************)
(* WebAuthn varsig: the varint codec, the envelope encoder and decoder and *)
(* the structural verifier of web/src/lib/webauthn-varsig.                 *)
(*                                                                         *)
(* Bytes are naturals 0..255 and a Uint8Array is a sequence of bytes; the  *)
(* source indexes from 0, so every index of the source is one less than    *)
(* the index of the sequence.  A JavaScript number that is the result of a *)
(* bitwise operator is an int32 and is a (signed) integer here; a number   *)
(* that may exceed 31 bits is a pair of 28-bit limbs [hi, lo], of value    *)
(* hi * 2^28 + lo.                                                         *)
(***************************************************************************)
EXTENDS Integers, Sequences, FiniteSets, TLC

VARIABLES
    op,         \* the operation that produced the current state
    num,        \* varintEncode's argument (a number in limbs)
    buf,        \* the buffer varintDecode reads
    off,        \* the offset varintDecode starts at
    vres,       \* varintDecode's outcome
    assertion,  \* the WebAuthnAssertion given to the encoder
    algo,       \* the algorithm given to the encoder ("null": a foreign tag)
    lead,       \* the bytes of the envelope's leading varint
    envelope,   \* the envelope's bytes, as handed to the decoder
    cut,        \* the number of bytes dropped from the envelope's end
    outcome,    \* decodeWebAuthnVarsig's outcome
    opts,       \* the VerificationOptions
    result,     \* verifyWebAuthnAssertion's result
    thrown,     \* the message of the error the last call threw, "" when it returned
    subtle,     \* what crypto.subtle does in the call: importKey, verify
    verdict,    \* verifyEd25519Signature's or verifyP256Signature's result
    signedData, \* reconstructSignedData's result
    pc,         \* where createWebAuthnEd25519Credential stands
    calls,      \* the number of calls of createWebAuthnEd25519Credential so far
    created,    \* navigator.credentials.create calls made by the current call
    credential, \* what the creation ceremony resolved with
    extractions,\* the extractors run by the current call, each with its input
    signer,     \* what the call returned: a signer or null
    raised,     \* the message of the error the call threw, "" when none
    cause,      \* why the call ended as it did
    seen,       \* every <<cause, returned value>> a finished call has shown
    signCalls,  \* the calls of sign on the signer, each with its position
    ceremonies, \* the navigator.credentials.get requests, in the order made
    delegationProof, \* the delegation given to verifyHardwareDelegation
    verifierOrigin,  \* the expectedOrigin given to verifyHardwareDelegation
    issuerKey,       \* extractPublicKeyFromDid's completion on the issuer
    verification,    \* verifyHardwareDelegation's result
    storage,         \* localStorage's item under HARDWARE_SIGNER_KEY
    storedSigner,    \* the signer whose record the item is
    hardwareSigner,  \* this.hardwareSigner of each service
    initCalls,       \* the calls of initializeHardwareSigner, each with its position
    ceremoniesStarted,  \* createWebAuthnEd25519Credential calls made so far
    credentialsCreated, \* credentials those calls have created
    overlapped       \* whether a call began before an earlier one had returned

varintVars == <<op, num, buf, off, vres>>
envelopeVars == <<assertion, algo, lead, envelope, cut, outcome>>
verifyVars == <<opts, result, thrown>>
cryptoVars == <<subtle, verdict, signedData>>
creationVars ==
    <<pc, calls, created, credential, extractions, signer, raised, cause, seen>>
signVars == <<signCalls, ceremonies>>
delegationVars == <<delegationProof, verifierOrigin, issuerKey, verification>>
serviceVars ==
    <<storage, storedSigner, hardwareSigner, initCalls, ceremoniesStarted,
      credentialsCreated, overlapped>>
hardwareVars == <<cryptoVars, creationVars, signVars, delegationVars, serviceVars>>

----------------------------------------------------------------------------
(* Numbers *)

Limb == 2^28                \* the weight of the high limb
Big(hi, lo) == [hi |-> hi, lo |-> lo]
ToBig(n) == Big(n \div Limb, n % Limb)
MinInt32 == (-2147483647) - 1

\* bit 0..30 of an int32 (two's complement), and its sign bit
Lo31(x) == IF x >= 0 THEN x ELSE (x + 2147483647) + 1
FromBits(lo31, sign) == IF sign THEN (lo31 - 2147483647) - 1 ELSE lo31

RECURSIVE OrNat(_, _)
OrNat(a, b) ==
    IF a = 0 THEN b
    ELSE IF b = 0 THEN a
    ELSE (IF a % 2 = 1 \/ b % 2 = 1 THEN 1 ELSE 0) + 2 * OrNat(a \div 2, b \div 2)

\* JavaScript a | b on int32 operands
BitOr32(a, b) == FromBits(OrNat(Lo31(a), Lo31(b)), a < 0 \/ b < 0)

\* JavaScript x << shift, for 0 <= x < 128: the shift count is taken modulo 32
\* and the bits that leave the 32-bit word are lost
Shl32(x, shift) ==
    LET k == shift % 32
        keep == 31 - k          \* number of bits of x that stay below bit 31
    IN  IF keep >= 7 THEN x * 2^k
        ELSE FromBits((x % 2^keep) * 2^k, (x \div 2^keep) % 2 = 1)

\* bytes[i] of a Uint8Array: undefined (here -1) outside 0 .. length-1
ByteAt(bytes, i) == IF i >= 0 /\ i < Len(bytes) THEN bytes[i + 1] ELSE -1
\* byte & mask for mask 0x7f and 0x80; undefined & mask is 0
And7f(byte) == IF byte < 0 THEN 0 ELSE byte % 128
And80(byte) == IF byte < 0 THEN 0 ELSE (byte \div 128) * 128

----------------------------------------------------------------------------
(* utils.ts: varintEncode, varintDecode *)

RECURSIVE varintEncodeInt(_)
varintEncodeInt(value) ==
    IF value >= 128
    THEN <<(value % 128) + 128>> \o varintEncodeInt(value \div 128)
    ELSE <<value % 128>>

\* value >>>= 7 reduces the value to 32 bits (hi % 16) before it shifts
varintEncode(value) ==
    IF value.hi = 0 THEN varintEncodeInt(value.lo)
    ELSE <<(value.lo % 128) + 128>>
         \o varintEncodeInt((value.hi % 16) * 2097152 + (value.lo \div 128))

\* An outcome: the pair returned, or the error thrown.  last is the greatest
\* index of bytes the call read (-1 when it read none).
Thrown(msg, last) ==
    [ok |-> FALSE, err |-> msg, value |-> 0, bytesRead |-> 0, last |-> last]
Returned(value, bytesRead, last) ==
    [ok |-> TRUE, err |-> "", value |-> value, bytesRead |-> bytesRead,
     last |-> last]

MaxShift == 53

RECURSIVE varintDecodeLoop(_, _, _, _, _)
varintDecodeLoop(bytes, offset, value, shift, bytesRead) ==
    IF ~(offset + bytesRead < Len(bytes))
    THEN Thrown("Varint incomplete", IF bytesRead = 0 THEN -1 ELSE offset + bytesRead - 1)
    ELSE LET byte == ByteAt(bytes, offset + bytesRead)
             v == BitOr32(value, Shl32(And7f(byte), shift))
         IN  IF And80(byte) = 0 THEN Returned(v, bytesRead + 1, offset + bytesRead)
             ELSE IF shift + 7 > MaxShift
             THEN Thrown("Varint too large", offset + bytesRead)
             ELSE varintDecodeLoop(bytes, offset, v, shift + 7, bytesRead + 1)

varintDecode(bytes, offset) == varintDecodeLoop(bytes, offset, 0, 0, 0)

----------------------------------------------------------------------------
(* index.ts (multicodec constants) *)

ED25519_PUB == 237              \* 0xed
WEBAUTHN_ED25519 == 11985       \* 0x2ed1
WEBAUTHN_P256 == 8790           \* 0x2256
P256_PUB == 4608                \* 0x1200

Algorithms == {"Ed25519", "P-256"}

\* mutant: both algorithms mapped to the Ed25519 tag
ALGORITHM_TO_MULTICODEC_AlwaysEd25519(algorithm) == WEBAUTHN_ED25519

ALGORITHM_TO_MULTICODEC(algorithm) ==
    IF algorithm = "Ed25519" THEN WEBAUTHN_ED25519 ELSE WEBAUTHN_P256

\* MULTICODEC_TO_ALGORITHM[multicodec] || null
getAlgorithm(multicodec) ==
    IF multicodec = WEBAUTHN_ED25519 THEN "Ed25519"
    ELSE IF multicodec = WEBAUTHN_P256 THEN "P-256"
    ELSE "null"

----------------------------------------------------------------------------
(* encoder.ts: encodeWebAuthnVarsig *)

\* utils.ts concat: the arrays one after the other
RECURSIVE concat(_)
concat(arrays) ==
    IF arrays = <<>> THEN <<>> ELSE Head(arrays) \o concat(Tail(arrays))

\* mutant: the signature written behind a varint of its length, like the
\* other two parts
encodeWebAuthnVarsig_PrefixedSignature(a, algorithm) ==
    concat(<<varintEncode(ToBig(ALGORITHM_TO_MULTICODEC(algorithm))),
             varintEncode(ToBig(Len(a.authenticatorData))), a.authenticatorData,
             varintEncode(ToBig(Len(a.clientDataJSON))), a.clientDataJSON,
             varintEncode(ToBig(Len(a.signature))), a.signature>>)

encodeWebAuthnVarsig(a, algorithm) ==
    LET multicodecBytes == varintEncode(ToBig(ALGORITHM_TO_MULTICODEC(algorithm)))
        authDataLenBytes == varintEncode(ToBig(Len(a.authenticatorData)))
        clientDataLenBytes == varintEncode(ToBig(Len(a.clientDataJSON)))
    IN  concat(<<multicodecBytes, authDataLenBytes, a.authenticatorData,
                 clientDataLenBytes, a.clientDataJSON, a.signature>>)

----------------------------------------------------------------------------
(* decoder.ts: decodeWebAuthnVarsig *)

ED25519_SIG_LEN == 64
P256_SIG_MIN == 64
P256_SIG_MAX == 74

\* a + b on JavaScript numbers.  Two negative int32 operands may leave the
\* 32-bit range; every later use of such a sum only tests it against the
\* buffer's bounds, so it is kept at the least int32.
AddJs(a, b) ==
    IF a < 0 /\ b < 0 /\ a < MinInt32 - b THEN MinInt32 ELSE a + b

\* a + b > n, for n >= 0, without leaving the 32-bit range
SumExceeds(a, b, n) ==
    IF a > 0 /\ b > 0 THEN b > n - a
    ELSE IF a < 0 /\ b < 0 THEN FALSE
    ELSE a + b > n

\* one relative index of Array.prototype.slice, clamped to 0 .. length
SliceIndex(i, n) ==
    IF i < 0 THEN (IF n + i > 0 THEN n + i ELSE 0)
    ELSE IF i < n THEN i ELSE n

\* bytes.slice(start, end)
Slice(bytes, start, end) ==
    LET from == SliceIndex(start, Len(bytes))
        to == SliceIndex(end, Len(bytes))
    IN  IF from < to THEN SubSeq(bytes, from + 1, to) ELSE <<>>

\* the greatest index a slice reads (-1 when the slice is empty)
SliceLast(bytes, start, end) ==
    LET from == SliceIndex(start, Len(bytes))
        to == SliceIndex(end, Len(bytes))
    IN  IF from < to THEN to - 1 ELSE -1

Max(a, b) == IF a >= b THEN a ELSE b

\* mutant: an Ed25519 signature is refused only when it is too long
SignatureLengthError_Ed25519MaxOnly(algorithm, signature) ==
    IF algorithm = "Ed25519"
    THEN (IF Len(signature) > ED25519_SIG_LEN
          THEN "Invalid Ed25519 signature length" ELSE "")
    ELSE IF algorithm = "P-256"
    THEN (IF Len(signature) < P256_SIG_MIN \/ Len(signature) > P256_SIG_MAX
          THEN "Invalid P-256 signature length" ELSE "")
    ELSE ""

\* mutant: a P-256 signature has no greatest length
SignatureLengthError_NoP256Max(algorithm, signature) ==
    IF algorithm = "Ed25519"
    THEN (IF Len(signature) # ED25519_SIG_LEN
          THEN "Invalid Ed25519 signature length" ELSE "")
    ELSE IF algorithm = "P-256"
    THEN (IF Len(signature) < P256_SIG_MIN
          THEN "Invalid P-256 signature length" ELSE "")
    ELSE ""

\* the signature length check: the error it throws, "" when it throws none
SignatureLengthError(algorithm, signature) ==
    IF algorithm = "Ed25519"
    THEN (IF Len(signature) # ED25519_SIG_LEN
          THEN "Invalid Ed25519 signature length" ELSE "")
    ELSE IF algorithm = "P-256"
    THEN (IF Len(signature) < P256_SIG_MIN \/ Len(signature) > P256_SIG_MAX
          THEN "Invalid P-256 signature length" ELSE "")
    ELSE ""

\* An outcome: the DecodedVarsig returned, or the error thrown.  last is the
\* greatest index of varsig the call read.
DecodeError(msg, last) ==
    [ok |-> FALSE, err |-> msg, multicodec |-> 0, algorithm |-> "null",
     authenticatorData |-> <<>>, clientDataJSON |-> <<>>, signature |-> <<>>,
     last |-> last]

decodeWebAuthnVarsig(varsig) ==
    LET m == varintDecode(varsig, 0)
    IN  IF ~m.ok THEN DecodeError(m.err, m.last)
        ELSE IF m.value # WEBAUTHN_ED25519 /\ m.value # WEBAUTHN_P256
        THEN DecodeError("Unsupported multicodec", m.last)
        ELSE
    LET algorithm == getAlgorithm(m.value)
        offset1 == m.bytesRead
        al == varintDecode(varsig, offset1)
        last1 == Max(m.last, al.last)
    IN  IF ~al.ok THEN DecodeError(al.err, last1)
        ELSE
    LET authDataLen == al.value
        offset2 == offset1 + al.bytesRead
    IN  IF SumExceeds(offset2, authDataLen, Len(varsig))
        THEN DecodeError("Invalid authenticatorData length", last1)
        ELSE
    LET offset3 == AddJs(offset2, authDataLen)
        authenticatorData == Slice(varsig, offset2, offset3)
        cl == varintDecode(varsig, offset3)
        last2 == Max(Max(last1, SliceLast(varsig, offset2, offset3)), cl.last)
    IN  IF ~cl.ok THEN DecodeError(cl.err, last2)
        ELSE
    LET clientDataLen == cl.value
        offset4 == offset3 + cl.bytesRead
    IN  IF SumExceeds(offset4, clientDataLen, Len(varsig))
        THEN DecodeError("Invalid clientDataJSON length", last2)
        ELSE
    LET offset5 == AddJs(offset4, clientDataLen)
        clientDataJSON == Slice(varsig, offset4, offset5)
        signature == Slice(varsig, offset5, Len(varsig))
        last3 == Max(Max(last2, SliceLast(varsig, offset4, offset5)),
                     SliceLast(varsig, offset5, Len(varsig)))
    IN  IF SignatureLengthError(algorithm, signature) # ""
        THEN DecodeError(SignatureLengthError(algorithm, signature), last3)
        ELSE [ok |-> TRUE, err |-> "", multicodec |-> m.value,
              algorithm |-> algorithm, authenticatorData |-> authenticatorData,
              clientDataJSON |-> clientDataJSON, signature |-> signature,
              last |-> last3]

----------------------------------------------------------------------------
(* Inputs of the envelope codec: the assertions of test-utils.ts *)

AUTH_DATA_MIN == 37
FLAGS_OFFSET == 32

\* createMockAuthenticatorData: rpIdHash, flags, signCount = 1
createMockAuthenticatorData(flags) ==
    [i \in 1 .. AUTH_DATA_MIN |->
        IF i <= FLAGS_OFFSET THEN ((i - 1) * 7 + 13) % 256
        ELSE IF i = FLAGS_OFFSET + 1 THEN flags
        ELSE IF i = AUTH_DATA_MIN THEN 1 ELSE 0]

\* createMockEd25519Signature, at any length
MockSignature(n) == [i \in 1 .. n |-> ((i - 1) * 3 + 7) % 256]

\* createMockP256Signature: a DER SEQUENCE of two 32-byte INTEGERs
createMockP256Signature ==
    [i \in 1 .. 70 |->
        IF i = 1 THEN 48
        ELSE IF i = 2 THEN 68
        ELSE IF i = 3 \/ i = 37 THEN 2
        ELSE IF i = 4 \/ i = 38 THEN 32
        ELSE IF i <= 36 THEN ((i - 5) * 5 + 11) % 256
        ELSE ((i - 39) * 7 + 13) % 256]

----------------------------------------------------------------------------
(* The texts of clientDataJSON *)

\* TextEncoder().encode(s) of the strings the model uses
Utf8(s) ==
    CASE s = "webauthn.get" ->
          <<119, 101, 98, 97, 117, 116, 104, 110, 46, 103, 101, 116>>
      [] s = "webauthn.create" ->
          <<119, 101, 98, 97, 117, 116, 104, 110, 46, 99, 114, 101, 97, 116, 101>>
      [] s = "https://example.com" ->
          <<104, 116, 116, 112, 115, 58, 47, 47, 101, 120, 97, 109, 112, 108,
            101, 46, 99, 111, 109>>
      [] s = "https://evil.com" ->
          <<104, 116, 116, 112, 115, 58, 47, 47, 101, 118, 105, 108, 46, 99, 111,
            109>>
      [] s = "AQID" ->
          <<65, 81, 73, 68>>
      [] s = "-_8" ->
          <<45, 95, 56>>
      [] s = "A" ->
          <<65>>
      [] s = "514vG9GBsbDjKiD6k58_ioMaAmWEEdteIfO4gIL1lNY" ->
          <<53, 49, 52, 118, 71, 57, 71, 66, 115, 98, 68, 106, 75, 105, 68, 54,
            107, 53, 56, 95, 105, 111, 77, 97, 65, 109, 87, 69, 69, 100, 116, 101,
            73, 102, 79, 52, 103, 73, 76, 49, 108, 78, 89>>
      [] s = "RBNvo1WzZ4oRRq0W9-hknpT7T8If536DEMBg9hyq_4o" ->
          <<82, 66, 78, 118, 111, 49, 87, 122, 90, 52, 111, 82, 82, 113, 48, 87,
            57, 45, 104, 107, 110, 112, 84, 55, 84, 56, 73, 102, 53, 51, 54, 68,
            69, 77, 66, 103, 57, 104, 121, 113, 95, 52, 111>>

\* the JSON text up to the value of type
JsonType ==
    <<123, 34, 116, 121, 112, 101, 34, 58, 34>>

\* the JSON text between the values of type and challenge
JsonChallenge ==
    <<34, 44, 34, 99, 104, 97, 108, 108, 101, 110, 103, 101, 34, 58, 34>>

\* the JSON text between the values of challenge and origin
JsonOrigin ==
    <<34, 44, 34, 111, 114, 105, 103, 105, 110, 34, 58, 34>>

\* the JSON text after the value of origin (crossOrigin is false)
JsonTail ==
    <<34, 44, 34, 99, 114, 111, 115, 115, 79, 114, 105, 103, 105, 110, 34,
      58, 102, 97, 108, 115, 101, 125>>

\* the JSON text null
JsonNull ==
    <<110, 117, 108, 108>>

\* the JSON text of an object with no member
JsonEmptyObject ==
    <<123, 125>>

\* the text of the test 'should throw on invalid JSON': no JSON text
NotJson ==
    <<110, 111, 116, 32, 118, 97, 108, 105, 100, 32, 106, 115, 111, 110,
      123, 93>>

\* an object with type webauthn.get, origin https://example.com and no challenge
JsonNoChallenge ==
    <<123, 34, 116, 121, 112, 101, 34, 58, 34, 119, 101, 98, 97, 117, 116,
      104, 110, 46, 103, 101, 116, 34, 44, 34, 111, 114, 105, 103, 105,
      110, 34, 58, 34, 104, 116, 116, 112, 115, 58, 47, 47, 101, 120, 97,
      109, 112, 108, 101, 46, 99, 111, 109, 34, 44, 34, 99, 114, 111, 115,
      115, 79, 114, 105, 103, 105, 110, 34, 58, 102, 97, 108, 115, 101, 125>>

Undefined == "undefined"

Types == {"webauthn.get", "webauthn.create"}
Origins == {"https://example.com", "https://evil.com"}
Challenges == {"AQID", "-_8", "A"}

ClientData(type, challenge, origin) ==
    [type |-> type, challenge |-> challenge, origin |-> origin,
     crossOrigin |-> "false"]

\* createMockClientDataJSON: TextEncoder().encode(JSON.stringify(clientData))
createMockClientDataJSON(cd) ==
    JsonType \o Utf8(cd.type) \o JsonChallenge \o Utf8(cd.challenge)
    \o JsonOrigin \o Utf8(cd.origin) \o JsonTail

\* the objects whose text the model knows
KnownClientData ==
    {ClientData(t, c, o) : t \in Types, c \in Challenges, o \in Origins}

\* the base64url text of SHA-256('{}'): the challenge of an assertion that
\* signs a delegation whose data is the empty object
DelegationChallenge == "RBNvo1WzZ4oRRq0W9-hknpT7T8If536DEMBg9hyq_4o"

\* the bytes that delegate of @ucanto/core, which is no part of this
\* repository, hands to the issuer's sign: the input of the UCAN's signature,
\* the base64url texts of its header and of its payload joined by '.'; here
\* 'e30.e30', of the delegation whose data has the JSON text '{}'
SignaturePayload == <<101, 51, 48, 46, 101, 51, 48>>

\* the challenge in the clientDataJSON of the ceremony sign starts on those
\* bytes: the base64url text of their SHA-256 digest
CreatedChallenge == "514vG9GBsbDjKiD6k58_ioMaAmWEEdteIfO4gIL1lNY"

\* the clientData of the assertions that sign a delegation: over the JSON text
\* of its data, and over the bytes sign was given
SignedClientData ==
    {ClientData("webauthn.get", c, o) :
        c \in {DelegationChallenge, CreatedChallenge}, o \in Origins}

----------------------------------------------------------------------------
(* decoder.ts: parseClientDataJSON *)

ParseError == [ok |-> FALSE, value |-> ClientData(Undefined, Undefined, Undefined)]
Parsed(cd) == [ok |-> TRUE, value |-> cd]

\* JSON.parse(TextDecoder().decode(bytes)), then the four members read.
\* JSON.parse inverts JSON.stringify on the objects above; null parses, and
\* reading a member of null throws inside the try block; every error is thrown
\* again as 'Failed to parse clientDataJSON'.
parseClientDataJSON(bytes) ==
    IF \E cd \in KnownClientData \cup SignedClientData :
            createMockClientDataJSON(cd) = bytes
    THEN Parsed(CHOOSE cd \in KnownClientData \cup SignedClientData :
                    createMockClientDataJSON(cd) = bytes)
    ELSE IF bytes = JsonNoChallenge
    THEN Parsed([ClientData("webauthn.get", Undefined, "https://example.com")
                    EXCEPT !.crossOrigin = "false"])
    ELSE IF bytes = JsonEmptyObject
    THEN Parsed([ClientData(Undefined, Undefined, Undefined)
                    EXCEPT !.crossOrigin = Undefined])
    ELSE ParseError

----------------------------------------------------------------------------
(* utils.ts: base64urlToBytes, bytesEqual *)

\* the value of a character of the base64 alphabet, -1 for any other
B64Value(c) ==
    IF c >= 65 /\ c <= 90 THEN c - 65
    ELSE IF c >= 97 /\ c <= 122 THEN c - 71
    ELSE IF c >= 48 /\ c <= 57 THEN c + 4
    ELSE IF c = 43 THEN 62
    ELSE IF c = 47 THEN 63
    ELSE -1

\* the bytes of a run of 6-bit values; the bits of an incomplete byte are dropped
RECURSIVE SextetsToBytes(_)
SextetsToBytes(v) ==
    IF Len(v) >= 4
    THEN <<v[1] * 4 + v[2] \div 16, (v[2] % 16) * 16 + v[3] \div 4,
           (v[3] % 4) * 64 + v[4]>> \o SextetsToBytes(SubSeq(v, 5, Len(v)))
    ELSE IF Len(v) = 3
    THEN <<v[1] * 4 + v[2] \div 16, (v[2] % 16) * 16 + v[3] \div 4>>
    ELSE IF Len(v) = 2 THEN <<v[1] * 4 + v[2] \div 16>>
    ELSE <<>>

\* atob: up to two '=' end a text whose length is a multiple of 4; a text of
\* length 4k+1 and a character outside the alphabet are errors
atob(chars) ==
    LET n == Len(chars)
        strip == IF n % 4 = 0 /\ n > 0 /\ chars[n] = 61
                 THEN (IF chars[n - 1] = 61 THEN 2 ELSE 1) ELSE 0
        body == SubSeq(chars, 1, n - strip)
    IN  IF Len(body) % 4 = 1 \/ \E i \in 1 .. Len(body) : B64Value(body[i]) < 0
        THEN [ok |-> FALSE, bytes |-> <<>>]
        ELSE [ok |-> TRUE,
              bytes |-> SextetsToBytes([i \in 1 .. Len(body) |-> B64Value(body[i])])]

\* base64url is a string or undefined; undefined.replace throws
base64urlToBytes(base64url) ==
    IF base64url = Undefined THEN [ok |-> FALSE, bytes |-> <<>>]
    ELSE
    LET chars == Utf8(base64url)
        base64 == [i \in 1 .. Len(chars) |->
                    IF chars[i] = 45 THEN 43 ELSE IF chars[i] = 95 THEN 47 ELSE chars[i]]
        padding == [i \in 1 .. ((4 - (Len(base64) % 4)) % 4) |-> 61]
    IN  atob(base64 \o padding)

\* mutant: only the lengths are compared
bytesEqual_LengthOnly(a, b) == Len(a) = Len(b)

bytesEqual(a, b) ==
    IF Len(a) # Len(b) THEN FALSE
    ELSE \A i \in 1 .. Len(a) : a[i] = b[i]

----------------------------------------------------------------------------
(* verifier.ts: verifyWebAuthnAssertion *)

UP_BIT == 1
UV_BIT == 4
BE_BIT == 8
BS_BIT == 16

\* (flags & bit) !== 0, for a bit that is a power of two
BitSet(flags, bit) == (flags \div bit) % 2 = 1

\* a VerificationResult: clientData and flags are sequences of at most one
\* element, empty when the member is absent
Failure(error) ==
    [valid |-> FALSE, error |-> error, clientData |-> <<>>, flags |-> <<>>]

\* mutant: user verification is required only when asked for (=== true)
requiresUserVerification_OptIn(options) == options.requireUserVerification = "true"

\* options.requireUserVerification !== false
requiresUserVerification(options) == options.requireUserVerification # "false"

\* how a call ends: by returning value, or by throwing an error with message
Return(value) == [threw |-> FALSE, message |-> "", value |-> value]
Throw(message) == [threw |-> TRUE, message |-> message, value |-> Failure("")]

\* the try block of verifyWebAuthnAssertion, which reads these two members of
\* decoded; parseClientDataJSON and base64urlToBytes (through atob, or through
\* replace on a challenge that is absent) throw
verifyChecks(clientDataJSON, authenticatorData, options) ==
    LET parsed == parseClientDataJSON(clientDataJSON)
        clientData == parsed.value
    IN  IF ~parsed.ok THEN Throw("Failed to parse clientDataJSON")
        ELSE IF clientData.type # "webauthn.get"
        THEN Return(Failure("Invalid ceremony type"))
        ELSE IF clientData.origin # options.expectedOrigin
        THEN Return(Failure("Origin mismatch"))
        ELSE
    LET challengeBytes == base64urlToBytes(clientData.challenge)
    IN  IF ~challengeBytes.ok THEN Throw("base64urlToBytes")
        ELSE IF ~bytesEqual(challengeBytes.bytes, options.expectedChallenge)
        THEN Return(Failure("Challenge mismatch"))
        ELSE IF Len(authenticatorData) < AUTH_DATA_MIN
        THEN Return(Failure("Invalid authenticatorData length"))
        ELSE
    LET flags == ByteAt(authenticatorData, FLAGS_OFFSET)
        userPresent == BitSet(flags, UP_BIT)
        userVerified == BitSet(flags, UV_BIT)
        backupEligible == BitSet(flags, BE_BIT)
        backupState == BitSet(flags, BS_BIT)
    IN  IF ~userPresent THEN Return(Failure("User presence (UP) flag not set"))
        ELSE IF requiresUserVerification(options) /\ ~userVerified
        THEN Return(Failure("User verification (UV) flag not set"))
        ELSE Return([valid |-> TRUE, error |-> "", clientData |-> <<clientData>>,
                     flags |-> <<[userPresent |-> userPresent,
                                  userVerified |-> userVerified,
                                  backupEligible |-> backupEligible,
                                  backupState |-> backupState]>>])

\* the catch block: whatever the try block throws is returned as a failure
verifyCatch(completion) ==
    IF completion.threw THEN Return(Failure("Verification failed")) ELSE completion

\* mutant: an envelope of the other algorithm is refused
verifyWebAuthnAssertion_Ed25519Only(decoded, options) ==
    IF decoded.algorithm # "Ed25519" THEN Return(Failure("Verification failed"))
    ELSE verifyCatch(verifyChecks(decoded.clientDataJSON, decoded.authenticatorData,
                                  options))

\* mutant: the try block without its catch
verifyWebAuthnAssertion_NoCatch(decoded, options) ==
    verifyChecks(decoded.clientDataJSON, decoded.authenticatorData, options)

verifyWebAuthnAssertion(decoded, options) ==
    verifyCatch(verifyChecks(decoded.clientDataJSON, decoded.authenticatorData,
                             options))

----------------------------------------------------------------------------
(* crypto.subtle.digest *)

\* crypto.subtle.digest('SHA-256', data) on the byte strings that are hashed
\* here, each with its SHA-256 digest
SHA256(data) ==
    CASE data = <<>>
          -> <<227, 176, 196, 66, 152, 252, 28, 20, 154, 251, 244, 200, 153, 111, 185, 36,
             39, 174, 65, 228, 100, 155, 147, 76, 164, 149, 153, 27, 120, 82, 184, 85>>
      [] data = <<1, 2, 3>>
          -> <<3, 144, 88, 198, 242, 192, 203, 73, 44, 83, 59, 10, 77, 20, 239, 119,
             204, 15, 120, 171, 204, 206, 213, 40, 125, 132, 161, 162, 1, 28, 251, 129>>
      [] data = SignaturePayload
          -> <<231, 94, 47, 27, 209, 129, 177, 176, 227, 42, 32, 250, 147, 159, 63, 138,
             131, 26, 2, 101, 132, 17, 219, 94, 33, 243, 184, 128, 130, 245, 148, 214>>
      [] data = JsonEmptyObject
          -> <<68, 19, 111, 163, 85, 179, 103, 138, 17, 70, 173, 22, 247, 232, 100, 158,
             148, 251, 79, 194, 31, 231, 126, 131, 16, 192, 96, 246, 28, 170, 255, 138>>
      [] data = JsonNull
          -> <<116, 35, 78, 152, 175, 231, 73, 143, 181, 218, 241, 243, 106, 194, 215, 138,
             204, 51, 148, 100, 249, 80, 112, 59, 140, 1, 152, 146, 249, 130, 185, 11>>
      [] data = NotJson
          -> <<186, 76, 79, 113, 74, 20, 218, 224, 84, 221, 23, 91, 120, 138, 54, 215,
             130, 35, 52, 15, 228, 90, 55, 56, 214, 73, 202, 24, 219, 111, 18, 243>>
      [] data = JsonNoChallenge
          -> <<132, 51, 35, 180, 172, 201, 181, 240, 106, 90, 227, 76, 29, 146, 132, 73,
             124, 110, 250, 91, 135, 119, 213, 111, 153, 152, 255, 107, 182, 246, 150, 84>>
      [] data = createMockClientDataJSON(ClientData("webauthn.get", "AQID",
                                                    "https://example.com"))
          -> <<133, 153, 212, 205, 226, 39, 238, 235, 6, 141, 186, 73, 30, 107, 18, 58,
             137, 8, 97, 164, 83, 73, 7, 141, 250, 183, 168, 94, 242, 147, 21, 230>>
      [] data = createMockClientDataJSON(ClientData("webauthn.get", "AQID",
                                                    "https://evil.com"))
          -> <<201, 199, 146, 139, 126, 181, 240, 30, 244, 238, 190, 150, 255, 52, 186, 173,
             103, 153, 162, 70, 31, 255, 143, 208, 104, 21, 206, 104, 119, 25, 189, 204>>
      [] data = createMockClientDataJSON(ClientData("webauthn.get", "-_8",
                                                    "https://example.com"))
          -> <<184, 231, 253, 205, 28, 119, 245, 46, 143, 203, 57, 219, 95, 211, 19, 71,
             204, 69, 234, 235, 20, 25, 96, 94, 198, 54, 56, 240, 177, 116, 67, 168>>
      [] data = createMockClientDataJSON(ClientData("webauthn.get", "-_8",
                                                    "https://evil.com"))
          -> <<89, 188, 109, 86, 105, 18, 234, 210, 255, 0, 63, 228, 32, 228, 209, 232,
             84, 199, 150, 115, 60, 6, 28, 147, 243, 246, 113, 101, 184, 158, 235, 128>>
      [] data = createMockClientDataJSON(ClientData("webauthn.get", "A",
                                                    "https://example.com"))
          -> <<212, 6, 151, 112, 114, 75, 149, 224, 118, 38, 189, 210, 149, 41, 91, 182,
             154, 136, 170, 218, 142, 139, 59, 154, 24, 194, 194, 155, 22, 4, 62, 232>>
      [] data = createMockClientDataJSON(ClientData("webauthn.get", "A",
                                                    "https://evil.com"))
          -> <<124, 166, 203, 221, 254, 144, 248, 70, 63, 37, 126, 207, 174, 132, 103, 205,
             33, 247, 79, 24, 112, 44, 10, 60, 196, 191, 130, 73, 150, 57, 131, 124>>
      [] data = createMockClientDataJSON(ClientData("webauthn.create", "AQID",
                                                    "https://example.com"))
          -> <<187, 188, 122, 117, 189, 231, 230, 11, 127, 57, 136, 76, 152, 82, 132, 10,
             66, 83, 67, 38, 227, 73, 181, 13, 84, 247, 18, 75, 60, 99, 19, 32>>
      [] data = createMockClientDataJSON(ClientData("webauthn.create", "AQID",
                                                    "https://evil.com"))
          -> <<165, 53, 43, 201, 181, 142, 250, 197, 38, 116, 149, 60, 140, 161, 182, 47,
             225, 191, 166, 62, 93, 178, 234, 3, 167, 168, 76, 36, 63, 204, 45, 241>>
      [] data = createMockClientDataJSON(ClientData("webauthn.create", "-_8",
                                                    "https://example.com"))
          -> <<12, 114, 161, 146, 180, 125, 151, 215, 165, 122, 154, 54, 147, 195, 2, 114,
             147, 218, 224, 207, 16, 32, 166, 252, 114, 115, 151, 173, 238, 48, 13, 241>>
      [] data = createMockClientDataJSON(ClientData("webauthn.create", "-_8",
                                                    "https://evil.com"))
          -> <<50, 118, 94, 253, 227, 249, 39, 243, 246, 159, 19, 233, 83, 54, 31, 249,
             185, 33, 57, 142, 217, 144, 203, 77, 45, 243, 27, 248, 200, 242, 56, 18>>
      [] data = createMockClientDataJSON(ClientData("webauthn.create", "A",
                                                    "https://example.com"))
          -> <<6, 41, 78, 11, 81, 149, 49, 0, 17, 125, 247, 136, 2, 54, 247, 235,
             178, 19, 199, 220, 67, 211, 195, 154, 162, 173, 51, 77, 74, 72, 175, 141>>
      [] data = createMockClientDataJSON(ClientData("webauthn.create", "A",
                                                    "https://evil.com"))
          -> <<169, 237, 25, 253, 73, 62, 122, 10, 97, 185, 152, 247, 174, 215, 201, 241,
             245, 27, 249, 104, 231, 152, 73, 63, 233, 160, 65, 237, 42, 161, 229, 216>>
      [] data = createMockClientDataJSON(ClientData("webauthn.get", DelegationChallenge,
                                                    "https://example.com"))
          -> <<115, 8, 142, 206, 197, 167, 99, 237, 143, 219, 231, 3, 68, 153, 41, 130,
             96, 151, 41, 251, 156, 115, 224, 175, 6, 52, 59, 22, 246, 212, 100, 74>>
      [] data = createMockClientDataJSON(ClientData("webauthn.get", DelegationChallenge,
                                                    "https://evil.com"))
          -> <<40, 33, 76, 142, 134, 57, 59, 76, 141, 169, 242, 146, 249, 246, 141, 11,
             154, 141, 168, 57, 207, 43, 217, 131, 85, 134, 243, 75, 12, 173, 113, 80>>
      [] data = createMockClientDataJSON(ClientData("webauthn.get", CreatedChallenge,
                                                    "https://example.com"))
          -> <<17, 1, 29, 221, 36, 122, 144, 145, 87, 83, 158, 187, 55, 126, 103, 167,
             132, 247, 60, 191, 10, 20, 132, 40, 63, 206, 250, 161, 17, 62, 49, 176>>
      [] data = createMockClientDataJSON(ClientData("webauthn.get", CreatedChallenge,
                                                    "https://evil.com"))
          -> <<28, 45, 254, 75, 223, 12, 245, 103, 129, 202, 80, 30, 14, 136, 195, 186,
             235, 207, 6, 101, 14, 77, 142, 77, 199, 206, 93, 202, 27, 140, 184, 239>>

----------------------------------------------------------------------------
(* verifier.ts: reconstructSignedData *)

\* mutant: the hash put before authenticatorData
reconstructSignedData_HashFirst(decoded) ==
    SHA256(decoded.clientDataJSON) \o decoded.authenticatorData

\* signedData.set(authenticatorData, 0); signedData.set(clientDataHash, length)
reconstructSignedData(decoded) ==
    LET clientDataHash == SHA256(decoded.clientDataJSON)
    IN  [i \in 1 .. Len(decoded.authenticatorData) + Len(clientDataHash) |->
            IF i <= Len(decoded.authenticatorData)
            THEN decoded.authenticatorData[i]
            ELSE clientDataHash[i - Len(decoded.authenticatorData)]]

----------------------------------------------------------------------------
(* verifier.ts: verifyEd25519Signature, verifyP256Signature *)

\* crypto.subtle in one call: importKey resolves with a key or rejects (a key
\* of the wrong length, an algorithm the platform lacks); verify resolves with
\* true or false, or rejects
ImportOutcomes == {"key", "rejects"}
VerifyOutcomes == {"true", "false", "rejects"}

\* the try block of both functions: await importKey, then return await verify
verifySignatureTry(lib) ==
    IF lib.importKey = "rejects" THEN Throw("importKey")
    ELSE IF lib.verify = "rejects" THEN Throw("verify")
    ELSE Return(lib.verify = "true")

\* the catch block of both functions: return false
verifySignatureCatch(completion) ==
    IF completion.threw THEN Return(FALSE) ELSE completion

\* mutant: the rejection of importKey or verify is not caught
verifyEd25519Signature_NoCatch(lib) == verifySignatureTry(lib)

verifyEd25519Signature(lib) == verifySignatureCatch(verifySignatureTry(lib))

verifyP256Signature(lib) == verifySignatureCatch(verifySignatureTry(lib))

----------------------------------------------------------------------------
(* webauthn-ed25519-signer.ts: the public key of a new credential *)

\* An attestation object, as far as the extractors read it: whether CBOR
\* decodes it, the flags byte of its authData, and the entries 1, 3, -1, -2 and
\* -3 of its COSE key (0 and the empty string of bytes for an absent entry).
Attestation(cbor, flags, kty, alg, crv, x, y) ==
    [cbor |-> cbor, flags |-> flags,
     coseKey |-> [kty |-> kty, alg |-> alg, crv |-> crv, x |-> x, y |-> y]]

AT_BIT == 64
COSE_OKP == 1
COSE_EC2 == 2
COSE_EDDSA == -8
COSE_ES256 == -7
COSE_ED25519 == 6
COSE_P256 == 1
ED25519_KEY_LEN == 32
P256_COORD_LEN == 32

\* Uint8Array | null
NullKey == [null |-> TRUE, bytes |-> <<>>]
Key(bytes) == [null |-> FALSE, bytes |-> bytes]

\* mutant: the algorithm of the COSE key is not compared
extractEd25519PublicKey_AnyAlgorithm(attestationObject) ==
    LET coseKey == attestationObject.coseKey
    IN  IF ~attestationObject.cbor THEN NullKey
        ELSE IF ~BitSet(attestationObject.flags, AT_BIT) THEN NullKey
        ELSE IF coseKey.kty # COSE_OKP THEN NullKey
        ELSE IF coseKey.crv # COSE_ED25519 THEN NullKey
        ELSE IF Len(coseKey.x) # ED25519_KEY_LEN THEN NullKey
        ELSE Key(coseKey.x)

\* every throw inside the try block is caught and null returned
extractEd25519PublicKey(attestationObject) ==
    LET coseKey == attestationObject.coseKey
    IN  IF ~attestationObject.cbor THEN NullKey
        ELSE IF ~BitSet(attestationObject.flags, AT_BIT) THEN NullKey
        ELSE IF coseKey.kty # COSE_OKP THEN NullKey
        ELSE IF coseKey.alg # COSE_EDDSA THEN NullKey
        ELSE IF coseKey.crv # COSE_ED25519 THEN NullKey
        ELSE IF Len(coseKey.x) # ED25519_KEY_LEN THEN NullKey
        ELSE Key(coseKey.x)

\* the uncompressed point 0x04 || x || y, null on every throw
extractP256PublicKey(attestationObject) ==
    LET coseKey == attestationObject.coseKey
    IN  IF ~attestationObject.cbor THEN NullKey
        ELSE IF ~BitSet(attestationObject.flags, AT_BIT) THEN NullKey
        ELSE IF coseKey.kty # COSE_EC2 THEN NullKey
        ELSE IF coseKey.alg # COSE_ES256 THEN NullKey
        ELSE IF coseKey.crv # COSE_P256 THEN NullKey
        ELSE IF Len(coseKey.x) # P256_COORD_LEN \/ Len(coseKey.y) # P256_COORD_LEN
        THEN NullKey
        ELSE Key(<<4>> \o coseKey.x \o coseKey.y)

\* multiformats' base58btc: the alphabet, as character codes
BASE58_ALPHABET ==
    <<49, 50, 51, 52, 53, 54, 55, 56, 57, 65, 66, 67, 68, 69, 70, 71, 72, 74,
      75, 76, 77, 78, 80, 81, 82, 83, 84, 85, 86, 87, 88, 89, 90, 97, 98, 99,
      100, 101, 102, 103, 104, 105, 106, 107, 109, 110, 111, 112, 113, 114,
      115, 116, 117, 118, 119, 120, 121, 122>>

BASE58 == Len(BASE58_ALPHABET)
MULTIBASE_Z == BASE58_ALPHABET[BASE58]      \* 'z', the prefix of base58btc
BASE58_LEADER == BASE58_ALPHABET[1]         \* '1', the digit zero

\* the value of a character of the alphabet, -1 for any other
Base58Value(c) ==
    IF \E v \in 1 .. BASE58 : BASE58_ALPHABET[v] = c
    THEN (CHOOSE v \in 1 .. BASE58 : BASE58_ALPHABET[v] = c) - 1
    ELSE -1

\* the number of leading elements of s that equal z
RECURSIVE LeadingCount(_, _)
LeadingCount(s, z) ==
    IF s = <<>> \/ s[1] # z THEN 0 ELSE 1 + LeadingCount(Tail(s), z)

\* s without its leading elements that equal z
StripLeading(s, z) == SubSeq(s, LeadingCount(s, z) + 1, Len(s))

\* Numbers of any size are big-endian sequences of base-256 digits, and are
\* converted three base-58 digits at a time: 58^3 times 256 is below 2^31.
BASE58_CUBED == BASE58 * BASE58 * BASE58

\* the three base-58 digits of a value below 58^3
Base58Triple(v) == <<v \div (BASE58 * BASE58), (v \div BASE58) % BASE58, v % BASE58>>

\* digits[lo .. hi] divided by divisor, with carry as the remainder of the
\* digits before lo: the quotient's digits and the remainder. The halves are
\* computed in the order of the division, the first half first; a remainder
\* is below the divisor.
RECURSIVE DivRange(_, _, _, _, _)
DivRange(digits, lo, hi, divisor, carry) ==
    IF lo > hi THEN [quotient |-> <<>>, remainder |-> carry]
    ELSE IF lo = hi
    THEN [quotient |-> <<(carry * 256 + digits[lo]) \div divisor>>,
          remainder |-> (carry * 256 + digits[lo]) % divisor]
    ELSE LET left == DivRange(digits, lo, (lo + hi) \div 2, divisor, carry)
             right == DivRange(digits, (lo + hi) \div 2 + 1, hi, divisor,
                               left.remainder)
         IN  IF left.remainder < divisor /\ right.remainder < divisor
             THEN [quotient |-> left.quotient \o right.quotient,
                   remainder |-> right.remainder]
             ELSE [quotient |-> <<>>, remainder |-> 0]

\* the base-58 digits of a number without leading zero digits, before tail
RECURSIVE ToBase58(_, _)
ToBase58(number, tail) ==
    IF number = <<>> THEN StripLeading(tail, 0)
    ELSE LET d == DivRange(number, 1, Len(number), BASE58_CUBED, 0)
         IN  ToBase58(StripLeading(d.quotient, 0), Base58Triple(d.remainder) \o tail)

\* base58btc.encode: 'z', a '1' for each leading zero byte, the number's digits
base58btcEncode(bytes) ==
    LET zeros == LeadingCount(bytes, 0)
        values == ToBase58(SubSeq(bytes, zeros + 1, Len(bytes)), <<>>)
    IN  <<MULTIBASE_Z>> \o [i \in 1 .. zeros |-> BASE58_LEADER]
        \o [i \in 1 .. Len(values) |-> BASE58_ALPHABET[values[i] + 1]]

\* digits[lo .. hi] times multiplier plus carry, the carry coming from the
\* digits after hi: the product's digits and the carry out. The halves are
\* computed in the order of the multiplication, the last half first; a carry
\* is below the multiplier.
RECURSIVE MulRange(_, _, _, _, _)
MulRange(digits, lo, hi, multiplier, carry) ==
    IF lo > hi THEN [product |-> <<>>, carry |-> carry]
    ELSE IF lo = hi
    THEN [product |-> <<(digits[lo] * multiplier + carry) % 256>>,
          carry |-> (digits[lo] * multiplier + carry) \div 256]
    ELSE LET right == MulRange(digits, (lo + hi) \div 2 + 1, hi, multiplier, carry)
             left == MulRange(digits, lo, (lo + hi) \div 2, multiplier, right.carry)
         IN  IF right.carry < multiplier /\ left.carry < multiplier
             THEN [product |-> left.product \o right.product, carry |-> left.carry]
             ELSE [product |-> <<>>, carry |-> 0]

\* number times multiplier plus addend, without leading zero digits
MulAdd(number, multiplier, addend) ==
    LET m == MulRange(number, 1, Len(number), multiplier, addend)
    IN  StripLeading(<<m.carry \div 65536, (m.carry \div 256) % 256, m.carry % 256>>
                     \o m.product, 0)

\* the number whose base-58 digits are number's followed by values[i ..],
\* taken three at a time after a first group that evens the count
RECURSIVE FromBase58(_, _, _)
FromBase58(values, i, number) ==
    IF Len(number) >= 0 /\ i > Len(values) THEN number
    ELSE IF (Len(values) - i + 1) % 3 = 1
    THEN FromBase58(values, i + 1, MulAdd(number, BASE58, values[i]))
    ELSE IF (Len(values) - i + 1) % 3 = 2
    THEN FromBase58(values, i + 2,
                    MulAdd(number, BASE58 * BASE58, values[i] * BASE58 + values[i + 1]))
    ELSE FromBase58(values, i + 3,
                    MulAdd(number, BASE58_CUBED,
                           (values[i] * BASE58 + values[i + 1]) * BASE58 + values[i + 2]))

\* base58btc.decode: throws unless the text starts with 'z' and every other
\* character is of the alphabet; a zero byte for each leading '1'
base58btcDecode(text) ==
    IF text = <<>> \/ text[1] # MULTIBASE_Z THEN Throw("Unable to decode multibase string")
    ELSE
    LET body == Tail(text)
        values == [i \in 1 .. Len(body) |-> Base58Value(body[i])]
        ones == LeadingCount(body, BASE58_LEADER)
    IN  IF \E i \in 1 .. Len(body) : values[i] < 0 THEN Throw("Non-base58btc character")
        ELSE Return([i \in 1 .. ones |-> 0] \o FromBase58(values, ones + 1, <<>>))

\* `did:key:${encoded}`: the method and the characters after it
DidKey(encoded) == [method |-> "did:key:", encoded |-> encoded]

\* multikey = [0xed, 0x01] + publicKey
createEd25519Did(publicKey) == DidKey(base58btcEncode(<<237, 1>> \o publicKey))

\* multikey = [0x80, 0x24] + publicKey
createP256Did(publicKey) == DidKey(base58btcEncode(<<128, 36>> \o publicKey))

\* what createWebAuthnEd25519Credential returns: a signer or null
NullSigner ==
    [algorithm |-> "null", credentialId |-> <<>>, did |-> DidKey(<<>>),
     publicKey |-> <<>>]
WebAuthnEd25519Signer(credentialId, did, publicKey) ==
    [algorithm |-> "Ed25519", credentialId |-> credentialId, did |-> did,
     publicKey |-> publicKey]
WebAuthnP256Signer(credentialId, did, publicKey) ==
    [algorithm |-> "P-256", credentialId |-> credentialId, did |-> did,
     publicKey |-> publicKey]

----------------------------------------------------------------------------
(* Inputs of the varint codec *)

MaxRun == 8             \* longest run of continuation bytes in a raw buffer
MaxPad == 1             \* longest prefix / suffix around an encoded varint

ContBytes == {128, 255}
TermBytes == {0, 1, 8, 16, 127}
PadBytes == {255, 1}

RECURSIVE SeqsUpTo(_, _)
SeqsUpTo(S, n) ==
    IF n = 0 THEN {<<>>}
    ELSE LET shorter == SeqsUpTo(S, n - 1)
         IN  shorter \cup {Append(s, x) : s \in {t \in shorter : Len(t) = n - 1}, x \in S}

\* a run of continuation bytes, ended by a terminating byte or by the buffer
RawBuffers ==
    {r \o t : r \in SeqsUpTo(ContBytes, MaxRun),
              t \in {<<>>} \cup {<<b>> : b \in TermBytes}}

\* numbers of [0, 2^32) at the edges of each encoded length, as limbs
NumSamples ==
    {Big(0, n) : n \in {0, 1, 127, 128, 300, 16383, 16384, 2097151, 2097152,
                        268435455}}
    \cup {Big(1, 0), Big(7, 268435455), Big(8, 0), Big(12, 4660), Big(15, 268435455)}

Pads == SeqsUpTo(PadBytes, MaxPad)

----------------------------------------------------------------------------
(* Inputs of the envelope codec and of the verifier *)

FlagSamples == {0, 1, 4, 5, 251, 254}

AuthDataSamples ==
    {createMockAuthenticatorData(f) : f \in FlagSamples}
    \cup {SubSeq(createMockAuthenticatorData(5), 1, AUTH_DATA_MIN - 1), <<>>}

ClientDataSamples ==
    {createMockClientDataJSON(cd) : cd \in KnownClientData}
    \cup {JsonNull, JsonEmptyObject, NotJson, JsonNoChallenge, <<>>}

\* authenticatorData with 93 bytes of extension data: 130 bytes, a length
\* whose varint has two bytes
ExtendedAuthData ==
    createMockAuthenticatorData(5) \o [i \in 1 .. 93 |-> (i * 11) % 256]

SigLens == {0, 63, 64, 65, 70, 74, 75, 200}
SignatureSamples == {MockSignature(n) : n \in SigLens} \cup {createMockP256Signature}

Assertion(a, c, s) ==
    [authenticatorData |-> a, clientDataJSON |-> c, signature |-> s]

\* every authenticatorData with every clientDataJSON under a signature of each
\* algorithm, and every signature around an empty and a full payload
AssertionSamples ==
    {Assertion(a, c, s) : a \in AuthDataSamples, c \in ClientDataSamples,
                          s \in {MockSignature(ED25519_SIG_LEN), createMockP256Signature}}
    \cup {Assertion(a, c, s) :
            a \in {<<>>, createMockAuthenticatorData(5), ExtendedAuthData},
            c \in {<<>>, createMockClientDataJSON(
                            ClientData("webauthn.get", "AQID", "https://example.com"))},
            s \in SignatureSamples}

\* leading varints that are no WebAuthn tag: the standard codes, one-byte
\* values, and runs of five and six bytes
LeadSamples ==
    {varintEncode(ToBig(ED25519_PUB)), varintEncode(ToBig(P256_PUB)), <<0>>, <<127>>,
     <<209, 221, 128, 128, 16>>, <<214, 196, 128, 128, 128, 2>>,
     <<209, 221, 128, 128, 1>>}

ExpectedChallenges == {<<1, 2, 3>>, <<251, 255>>, <<1, 2, 4>>}

OptionSamples ==
    [expectedOrigin : Origins, expectedChallenge : ExpectedChallenges,
     requireUserVerification : {"true", "false", Undefined}]

\* the positions at which a signature byte is changed
FlipPositions == {0, 32, 63}

\* the assertions put behind a foreign leading varint
ForeignAssertions ==
    {Assertion(createMockAuthenticatorData(5),
               createMockClientDataJSON(
                   ClientData("webauthn.get", "AQID", "https://example.com")), s) :
        s \in {MockSignature(ED25519_SIG_LEN), createMockP256Signature}}

\* a varint of the same value in one more byte: the last digit under the
\* continuation bit, and a zero digit behind it
Padded(v) == [v EXCEPT ![Len(v)] = @ + 128] \o <<0>>

\* five-byte runs whose value has bit 31 set: 2^32 - 1 and 2^31, which
\* varintDecode's 32-bit arithmetic returns as -1 and -2^31
AllOnes32 == <<255, 255, 255, 255, 15>>
TopBit32 == <<128, 128, 128, 128, 8>>

\* envelopes put together by a sender other than encodeWebAuthnVarsig: a tag
\* varint, a length varint, authenticatorData, a length varint, clientDataJSON
\* and a signature, where each varint is the one varintEncode writes or the
\* padded one of the same value, and two whose length varint has bit 31 set
AssembledSamples ==
    {<<l, al, cl, a>> :
        a \in ForeignAssertions,
        l \in {varintEncode(ToBig(WEBAUTHN_ED25519)),
               Padded(varintEncode(ToBig(WEBAUTHN_ED25519))),
               Padded(varintEncode(ToBig(WEBAUTHN_P256)))},
        al \in {varintEncode(ToBig(AUTH_DATA_MIN)),
                Padded(varintEncode(ToBig(AUTH_DATA_MIN)))},
        cl \in {varintEncode(ToBig(Len(createMockClientDataJSON(
                    ClientData("webauthn.get", "AQID", "https://example.com"))))),
                Padded(varintEncode(ToBig(Len(createMockClientDataJSON(
                    ClientData("webauthn.get", "AQID", "https://example.com"))))))}}
    \cup {<<varintEncode(ToBig(WEBAUTHN_ED25519)), varintEncode(ToBig(AUTH_DATA_MIN)),
            AllOnes32,
            Assertion(createMockAuthenticatorData(5), <<>>,
                      MockSignature(ED25519_SIG_LEN - 1))>>,
          <<varintEncode(ToBig(WEBAUTHN_P256)), TopBit32, <<>>,
            Assertion(<<>>, <<>>, MockSignature(60))>>}

----------------------------------------------------------------------------
(* The codec's operations *)

NoResult == Thrown("", -1)

InitVarint ==
    /\ num = Big(0, 0)
    /\ buf = <<>>
    /\ off = 0
    /\ vres = NoResult

\* buf := p || varintEncode(n) || t, to be decoded at offset len(p)
DoVarintEncode(n, p, t) ==
    /\ op = "init"
    /\ op' = "varintEncode"
    /\ num' = n
    /\ buf' = p \o varintEncode(n) \o t
    /\ off' = Len(p)
    /\ vres' = NoResult
    /\ UNCHANGED <<hardwareVars, envelopeVars, verifyVars>>

\* a raw buffer and an offset into it
LoadBuffer(b, o) ==
    /\ op = "init"
    /\ op' = "load"
    /\ num' = Big(0, 0)
    /\ buf' = b
    /\ off' = o
    /\ vres' = NoResult
    /\ UNCHANGED <<hardwareVars, envelopeVars, verifyVars>>

DoVarintDecode ==
    /\ op \in {"varintEncode", "load"}
    /\ op' = IF op = "varintEncode" THEN "varintRoundTrip" ELSE "varintDecode"
    /\ vres' = varintDecode(buf, off)
    /\ UNCHANGED <<hardwareVars, num, buf, off, envelopeVars, verifyVars>>

EncodeSomeNumber ==
    op = "init" /\ \E n \in NumSamples, p \in Pads, t \in Pads : DoVarintEncode(n, p, t)

LoadSomeBuffer ==
    op = "init" /\ \E b \in RawBuffers, o \in 0 .. MaxPad : LoadBuffer(b, o)

NextVarint == EncodeSomeNumber \/ LoadSomeBuffer \/ DoVarintDecode

----------------------------------------------------------------------------
(* The envelope's operations *)

NoAssertion == Assertion(<<>>, <<>>, <<>>)
NoDecoded == DecodeError("", -1)
NoOptions ==
    [expectedOrigin |-> "", expectedChallenge |-> <<>>,
     requireUserVerification |-> Undefined]
NoVerification == Failure("")

InitEnvelope ==
    /\ assertion = NoAssertion
    /\ algo = "null"
    /\ lead = <<>>
    /\ envelope = <<>>
    /\ cut = 0
    /\ outcome = NoDecoded
    /\ opts = NoOptions
    /\ result = NoVerification
    /\ thrown = ""

\* varsig := encodeWebAuthnVarsig(a, alg)
Encode(a, alg) ==
    /\ op = "init"
    /\ op' = "encode"
    /\ assertion' = a
    /\ algo' = alg
    /\ lead' = varintEncode(ToBig(ALGORITHM_TO_MULTICODEC(alg)))
    /\ envelope' = encodeWebAuthnVarsig(a, alg)
    /\ UNCHANGED <<hardwareVars, cut, outcome, num, buf, off, vres, verifyVars>>

\* the envelope of the test 'should throw on invalid multicodec': the parts of
\* an encoded assertion behind a leading varint that is no WebAuthn tag
EncodeForeign(l, a) ==
    /\ op = "init"
    /\ op' = "encode"
    /\ assertion' = a
    /\ algo' = "null"
    /\ lead' = l
    /\ envelope' = concat(<<l, varintEncode(ToBig(Len(a.authenticatorData))),
                          a.authenticatorData,
                          varintEncode(ToBig(Len(a.clientDataJSON))),
                          a.clientDataJSON, a.signature>>)
    /\ UNCHANGED <<hardwareVars, cut, outcome, num, buf, off, vres, verifyVars>>

\* an envelope assembled from its six parts, the three varints as given
Assemble(l, al, cl, a) ==
    /\ op = "init"
    /\ op' = "encode"
    /\ assertion' = a
    /\ algo' = "null"
    /\ lead' = l
    /\ envelope' = concat(<<l, al, a.authenticatorData, cl, a.clientDataJSON,
                            a.signature>>)
    /\ UNCHANGED <<hardwareVars, cut, outcome, num, buf, off, vres, verifyVars>>

\* varsig := varsig.slice(0, k), a strict prefix
Truncate(k) ==
    /\ op = "encode"
    /\ cut = 0
    /\ k < Len(envelope)
    /\ envelope' = Slice(envelope, 0, k)
    /\ cut' = Len(envelope) - k
    /\ UNCHANGED <<hardwareVars, op, assertion, algo, lead, outcome, num, buf, off, vres,
                   verifyVars>>

\* decoded := decodeWebAuthnVarsig(varsig)
Decode ==
    /\ op = "encode"
    /\ op' = "decode"
    /\ outcome' = decodeWebAuthnVarsig(envelope)
    /\ UNCHANGED <<hardwareVars, assertion, algo, lead, envelope, cut, num, buf, off, vres,
                   verifyVars>>

\* result := verifyWebAuthnAssertion(decoded, o)
Verify(o) ==
    /\ op = "decode"
    /\ outcome.ok
    /\ op' = "verify"
    /\ opts' = o
    /\ LET completion == verifyWebAuthnAssertion(outcome, o)
       IN  result' = completion.value /\ thrown' = completion.message
    /\ UNCHANGED <<hardwareVars, envelopeVars, num, buf, off, vres>>

\* the envelope with one byte of its signature changed, or under the other
\* algorithm's tag, verified again with the same options
Altered(d, i) ==
    IF i < 0
    THEN [d EXCEPT !.algorithm = IF @ = "Ed25519" THEN "P-256" ELSE "Ed25519",
                   !.multicodec = IF @ = WEBAUTHN_ED25519 THEN WEBAUTHN_P256
                                  ELSE WEBAUTHN_ED25519]
    ELSE [d EXCEPT !.signature[i + 1] = (@ + 1) % 256]

VerifyAltered(i) ==
    /\ op = "verify"
    /\ i < Len(outcome.signature)
    /\ op' = "reverify"
    /\ outcome' = Altered(outcome, i)
    /\ LET completion == verifyWebAuthnAssertion(outcome', opts)
       IN  result' = completion.value /\ thrown' = completion.message
    /\ UNCHANGED <<hardwareVars, assertion, algo, lead, envelope, cut, opts, num, buf, off,
                   vres>>

EncodeSome ==
    op = "init" /\ \E a \in AssertionSamples, alg \in Algorithms : Encode(a, alg)

EncodeSomeForeign ==
    op = "init" /\ \E l \in LeadSamples, a \in ForeignAssertions : EncodeForeign(l, a)

AssembleSome ==
    op = "init"
    /\ \E s \in AssembledSamples : Assemble(s[1], s[2], s[3], s[4])

TruncateSome ==
    op = "encode" /\ cut = 0 /\ \E k \in 0 .. Len(envelope) - 1 : Truncate(k)

VerifySome == op = "decode" /\ \E o \in OptionSamples : Verify(o)

VerifySomeAltered ==
    op = "verify" /\ \E i \in FlipPositions \cup {-1} : VerifyAltered(i)

NextEnvelope ==
    EncodeSome \/ EncodeSomeForeign \/ AssembleSome \/ TruncateSome \/ Decode
    \/ VerifySome \/ VerifySomeAltered

----------------------------------------------------------------------------
(* The signature verifiers' operations *)

SubtleSamples ==
    [name : Algorithms, importKey : ImportOutcomes, verify : VerifyOutcomes]

NoSubtle == [name |-> "null", importKey |-> "key", verify |-> "false"]

InitCrypto ==
    /\ subtle = NoSubtle
    /\ verdict = FALSE
    /\ signedData = <<>>

\* verdict := await verifyEd25519Signature(...) or verifyP256Signature(...)
CryptoVerify(lib) ==
    /\ op = "init"
    /\ op' = "cryptoVerify"
    /\ subtle' = lib
    /\ LET completion == IF lib.name = "Ed25519" THEN verifyEd25519Signature(lib)
                         ELSE verifyP256Signature(lib)
       IN  verdict' = completion.value /\ thrown' = completion.message
    /\ UNCHANGED <<num, buf, off, vres, envelopeVars, opts, result, signedData,
                   creationVars, serviceVars, signVars, delegationVars>>

\* signedData := await reconstructSignedData(decoded)
Reconstruct ==
    /\ op = "decode"
    /\ outcome.ok
    /\ op' = "reconstruct"
    /\ signedData' = reconstructSignedData(outcome)
    /\ UNCHANGED <<num, buf, off, vres, envelopeVars, verifyVars, subtle, verdict,
                   creationVars, serviceVars, signVars, delegationVars>>

\* the same on the envelope with a signature byte or the algorithm tag changed
ReconstructAltered(i) ==
    /\ op = "reconstruct"
    /\ i < Len(outcome.signature)
    /\ op' = "reconstructAgain"
    /\ outcome' = Altered(outcome, i)
    /\ signedData' = reconstructSignedData(outcome')
    /\ UNCHANGED <<num, buf, off, vres, assertion, algo, lead, envelope, cut,
                   verifyVars, subtle, verdict, creationVars, serviceVars, signVars,
                   delegationVars>>

ReconstructSomeAltered ==
    op = "reconstruct" /\ \E i \in FlipPositions \cup {-1} : ReconstructAltered(i)

CryptoVerifySome == op = "init" /\ \E lib \in SubtleSamples : CryptoVerify(lib)

NextCrypto == CryptoVerifySome \/ Reconstruct \/ ReconstructSomeAltered

----------------------------------------------------------------------------
(* Inputs of the signer negotiation *)

MaxCalls == 2           \* calls of createWebAuthnEd25519Credential in a run
MaxSign == 2            \* calls of sign on one signer

CoordX == [i \in 1 .. 32 |-> (i * 5 + 11) % 256]
CoordY == [i \in 1 .. 32 |-> (i * 7 + 13) % 256]

Ed25519Attestation == Attestation(TRUE, 69, 1, -8, 6, CoordX, <<>>)
P256Attestation == Attestation(TRUE, 69, 2, -7, 1, CoordX, CoordY)
RsaAttestation == Attestation(TRUE, 69, 3, -257, 0, <<1, 0, 1>>, <<>>)

\* the public keys of the attestation objects below and of the issuers of
\* delegations, and the identifier createEd25519Did and createP256Did give each
\* of them, computed once
Ed25519Keys == {CoordX, CoordY}
P256Keys == {<<4>> \o CoordX \o CoordY, <<4>> \o CoordY \o CoordX}
Ed25519Dids == [publicKey \in Ed25519Keys |-> createEd25519Did(publicKey)]
P256Dids == [publicKey \in P256Keys |-> createP256Did(publicKey)]

\* the three key types, and keys and attestation objects that are malformed:
\* a short Ed25519 key, a short P-256 coordinate, an OKP key under ES256, an
\* EC2 key on another curve, an EC2 key under EdDSA, authData without attested
\* credential data, and bytes that are no CBOR
AttestationSamples ==
    {Ed25519Attestation, P256Attestation, RsaAttestation,
     Attestation(TRUE, 69, 1, -8, 6, SubSeq(CoordX, 1, 31), <<>>),
     Attestation(TRUE, 69, 2, -7, 1, CoordX, SubSeq(CoordY, 1, 31)),
     Attestation(TRUE, 69, 1, -7, 6, CoordX, <<>>),
     Attestation(TRUE, 69, 2, -7, 6, CoordX, CoordY),
     Attestation(TRUE, 69, 2, -8, 1, CoordX, CoordY),
     Attestation(TRUE, 5, 1, -8, 6, CoordX, <<>>),
     Attestation(FALSE, 0, 0, 0, 0, <<>>, <<>>)}

\* what navigator.credentials.create resolves with, or rejects with
NoCredential ==
    [kind |-> "none", name |-> "", rawId |-> <<>>,
     attestationObject |-> Attestation(FALSE, 0, 0, 0, 0, <<>>, <<>>)]
Credential(attestationObject) ==
    [NoCredential EXCEPT !.kind = "credential", !.rawId = <<201, 202>>,
                         !.attestationObject = attestationObject]
NullCredential == [NoCredential EXCEPT !.kind = "null"]
Rejection(name) == [NoCredential EXCEPT !.kind = "rejects", !.name = name]

CreateOutcomes ==
    {Credential(a) : a \in AttestationSamples}
    \cup {NullCredential, Rejection("NotAllowedError"), Rejection("UnknownError")}

----------------------------------------------------------------------------
(* webauthn-ed25519-signer.ts: createWebAuthnEd25519Credential *)

InitCreation ==
    /\ pc = "idle"
    /\ calls = 0
    /\ created = 0
    /\ credential = NoCredential
    /\ extractions = <<>>
    /\ signer = NullSigner
    /\ raised = ""
    /\ cause = ""
    /\ seen = {}

codecVars == <<varintVars, envelopeVars, verifyVars, cryptoVars, delegationVars>>
otherVars == <<codecVars, signVars, serviceVars>>

\* mutant: what the try block throws is thrown again
creationCatch_Rethrow(message) ==
    [threw |-> TRUE, message |-> message, value |-> NullSigner]

\* catch (error) { ... return null }
creationCatch(message) == Return(NullSigner)

\* the call ends: by a return out of the try block, or through the catch block
Finish(completion, why) ==
    /\ pc' = "returned"
    /\ signer' = completion.value
    /\ raised' = completion.message
    /\ cause' = why
    /\ seen' = seen \cup {<<why, completion.value, completion.message>>}

\* the call, up to its first await: without window.PublicKeyCredential the
\* try block throws; otherwise navigator.credentials.create is called
CreateCall(supported) ==
    /\ pc \in {"idle", "returned"}
    /\ calls < MaxCalls
    /\ \A c \in 1 .. MaxSign : signCalls[c].at = "idle"
    /\ calls' = calls + 1
    /\ credential' = NoCredential
    /\ extractions' = <<>>
    /\ IF supported
       THEN /\ created' = 1
            /\ pc' = "create"
            /\ signer' = NullSigner /\ raised' = "" /\ cause' = ""
            /\ UNCHANGED seen
       ELSE /\ created' = 0
            /\ Finish(creationCatch("WebAuthn not supported in this browser"),
                      "unsupported")
    /\ UNCHANGED otherVars

\* the ceremony resolves with a credential or with null, or rejects
CeremonyResolves(resolution) ==
    /\ pc = "create"
    /\ credential' = resolution
    /\ IF resolution.kind = "credential"
       THEN /\ pc' = "extractEd25519"
            /\ UNCHANGED <<signer, raised, cause, seen>>
       ELSE IF resolution.kind = "null"
       THEN Finish(Return(NullSigner), "cancelled")
       ELSE Finish(creationCatch(resolution.name),
                   IF resolution.name = "NotAllowedError" THEN "cancelled"
                   ELSE "transport")
    /\ UNCHANGED <<calls, created, extractions, otherVars>>

\* mutant: without the fallback, as the function was before P-256 was added
ExtractStrong_NoFallback ==
    /\ pc = "extractEd25519"
    /\ extractions' = Append(extractions,
          [extractor |-> "Ed25519",
           attestationObject |-> credential.attestationObject])
    /\ LET publicKey == extractEd25519PublicKey(credential.attestationObject)
       IN  IF publicKey.null
           THEN Finish(creationCatch("Failed to extract Ed25519 public key"),
                       "unavailable")
           ELSE Finish(Return(WebAuthnEd25519Signer(credential.rawId,
                                  Ed25519Dids[publicKey.bytes],
                                  publicKey.bytes)), "ready")
    /\ UNCHANGED <<calls, created, credential, otherVars>>

\* publicKey := await extractEd25519PublicKey(response.attestationObject); with
\* a key, the Ed25519 signer is returned
ExtractStrong ==
    /\ pc = "extractEd25519"
    /\ extractions' = Append(extractions,
          [extractor |-> "Ed25519",
           attestationObject |-> credential.attestationObject])
    /\ LET publicKey == extractEd25519PublicKey(credential.attestationObject)
       IN  IF publicKey.null
           THEN /\ pc' = "extractP256"
                /\ UNCHANGED <<signer, raised, cause, seen>>
           ELSE Finish(Return(WebAuthnEd25519Signer(credential.rawId,
                                  Ed25519Dids[publicKey.bytes],
                                  publicKey.bytes)), "ready")
    /\ UNCHANGED <<calls, created, credential, otherVars>>

\* mutant: the fallback asks the authenticator for another credential
ExtractFallback_SecondCeremony ==
    /\ pc = "extractP256"
    /\ created' = created + 1
    /\ extractions' = Append(extractions,
          [extractor |-> "P-256", attestationObject |-> P256Attestation])
    /\ Finish(Return(WebAuthnP256Signer(credential.rawId,
                         P256Dids[extractP256PublicKey(P256Attestation).bytes],
                         extractP256PublicKey(P256Attestation).bytes)), "ready")
    /\ UNCHANGED <<calls, credential, otherVars>>

\* p256PublicKey := await extractP256PublicKey(response.attestationObject);
\* without a key the try block throws, with one the P-256 signer is returned
ExtractFallback ==
    /\ pc = "extractP256"
    /\ extractions' = Append(extractions,
          [extractor |-> "P-256",
           attestationObject |-> credential.attestationObject])
    /\ LET p256PublicKey == extractP256PublicKey(credential.attestationObject)
       IN  IF p256PublicKey.null
           THEN Finish(creationCatch("Failed to extract public key from credential"),
                       "unavailable")
           ELSE Finish(Return(WebAuthnP256Signer(credential.rawId,
                                  P256Dids[p256PublicKey.bytes],
                                  p256PublicKey.bytes)), "ready")
    /\ UNCHANGED <<calls, created, credential, otherVars>>

CreateSomeCall == \E supported \in BOOLEAN : CreateCall(supported)

CeremonySomeResolves ==
    pc = "create" /\ \E resolution \in CreateOutcomes : CeremonyResolves(resolution)

NextCreation == CreateSomeCall \/ CeremonySomeResolves \/ ExtractStrong \/ ExtractFallback

----------------------------------------------------------------------------
(* webauthn-ed25519-signer.ts: WebAuthnEd25519Signer.sign, WebAuthnP256Signer.sign *)

Payloads == {<<>>, <<1, 2, 3>>}

\* what navigator.credentials.get resolves with, or rejects with
NoAssertionResponse == [kind |-> "none", name |-> "", response |-> NoAssertion]
AssertionResponse(a) == [NoAssertionResponse EXCEPT !.kind = "assertion", !.response = a]
NullAssertion == [NoAssertionResponse EXCEPT !.kind = "null"]
GetRejection(name) == [NoAssertionResponse EXCEPT !.kind = "rejects", !.name = name]

\* encoder.ts: validateWebAuthnAssertion, which throws on an empty member and
\* on a signature of fewer than 64 bytes
validateWebAuthnAssertion(a) ==
    IF Len(a.authenticatorData) = 0
    THEN Throw("authenticatorData is required and cannot be empty")
    ELSE IF Len(a.clientDataJSON) = 0
    THEN Throw("clientDataJSON is required and cannot be empty")
    ELSE IF Len(a.signature) = 0
    THEN Throw("signature is required and cannot be empty")
    ELSE IF Len(a.signature) < 64 THEN Throw("Signature too short")
    ELSE Return(Undefined)

\* an assertion as an authenticator gives it, a response whose
\* authenticatorData is empty, null, and a rejection
GetOutcomes ==
    {AssertionResponse(Assertion(createMockAuthenticatorData(5),
         createMockClientDataJSON(ClientData("webauthn.get", "AQID",
                                             "https://example.com")),
         MockSignature(ED25519_SIG_LEN))),
     AssertionResponse(Assertion(<<>>,
         createMockClientDataJSON(ClientData("webauthn.get", "-_8",
                                             "https://example.com")),
         createMockP256Signature)),
     NullAssertion, GetRejection("NotAllowedError")}

IdleCall ==
    [at |-> "idle", payload |-> <<>>, ceremony |-> 0, envelope |-> <<>>,
     error |-> ""]

InitSign ==
    /\ signCalls = [c \in 1 .. MaxSign |-> IdleCall]
    /\ ceremonies = <<>>

\* the request of one call: publicKey.challenge and allowCredentials[0].id
GetRequest(self, challenge) ==
    [challenge |-> challenge, allowCredential |-> self.credentialId,
     state |-> "pending", answer |-> NoAssertionResponse]

\* mutant: the envelope is written under the Ed25519 tag by either class
signReturn_AlwaysEd25519(self, answer) ==
    IF answer.kind = "rejects" THEN Throw(answer.name)
    ELSE IF answer.kind = "null"
    THEN Throw("WebAuthn authentication failed or was cancelled")
    ELSE Return(encodeWebAuthnVarsig(answer.response, "Ed25519"))

\* sign, from the end of its ceremony on: a rejection leaves the call, a null
\* assertion throws, and the response is encoded under the class's algorithm
signReturn(self, answer) ==
    IF answer.kind = "rejects" THEN Throw(answer.name)
    ELSE IF answer.kind = "null"
    THEN Throw("WebAuthn authentication failed or was cancelled")
    ELSE Return(encodeWebAuthnVarsig(answer.response, self.algorithm))

\* sign(payload) is called on the signer that was returned; it awaits the digest
SignCall(c, payload) ==
    /\ pc = "returned"
    /\ signer.algorithm # "null"
    /\ signCalls[c].at = "idle"
    /\ \A d \in 1 .. c - 1 : signCalls[d].at # "idle"
    /\ signCalls' = [signCalls EXCEPT ![c] = [@ EXCEPT !.at = "digest",
                                                       !.payload = payload]]
    /\ UNCHANGED <<ceremonies, creationVars, serviceVars, codecVars>>

\* challenge := the digest; navigator.credentials.get is called and awaited
SignGet(c) ==
    /\ signCalls[c].at = "digest"
    /\ ceremonies' = Append(ceremonies,
                            GetRequest(signer, SHA256(signCalls[c].payload)))
    /\ signCalls' = [signCalls EXCEPT ![c] = [@ EXCEPT !.at = "get",
                                                       !.ceremony = Len(ceremonies')]]
    /\ UNCHANGED <<creationVars, serviceVars, codecVars>>

\* the ceremony of call c ends, and the call with it
GetResolves(c, answer) ==
    /\ signCalls[c].at = "get"
    /\ ceremonies' = [ceremonies EXCEPT ![signCalls[c].ceremony] =
                         [@ EXCEPT !.state = "done", !.answer = answer]]
    /\ LET completion == signReturn(signer, answer)
       IN  signCalls' = [signCalls EXCEPT ![c] =
              IF completion.threw
              THEN [@ EXCEPT !.at = "threw", !.error = completion.message]
              ELSE [@ EXCEPT !.at = "returned", !.envelope = completion.value]]
    /\ UNCHANGED <<creationVars, serviceVars, codecVars>>

SignSomeCall ==
    pc = "returned" /\ \E c \in 1 .. MaxSign, payload \in Payloads : SignCall(c, payload)

SignSomeGet == \E c \in 1 .. MaxSign : SignGet(c)

GetSomeResolves == \E c \in 1 .. MaxSign, answer \in GetOutcomes : GetResolves(c, answer)

NextSign == SignSomeCall \/ SignSomeGet \/ GetSomeResolves

----------------------------------------------------------------------------
(* HardwareUCANDelegationService: verifyHardwareDelegation *)

\* a did that is absent, and a did of another method
NullDid == [method |-> "", encoded |-> <<>>]
DidWeb == [method |-> "did:web:", encoded |-> <<101, 120, 97, 109, 112, 108, 101, 46, 99, 111, 109>>]

\* mutant: the multicodec tag taken for one byte
extractPublicKeyFromDid_OneByteTag(did) ==
    IF did.method # "did:key:" \/ did.encoded = <<>> \/ did.encoded[1] # MULTIBASE_Z
    THEN Throw("Invalid DID format")
    ELSE
    LET multikey == base58btcDecode(did.encoded)
    IN  IF multikey.threw THEN multikey
        ELSE Return(Slice(multikey.value, 1, Len(multikey.value)))

\* extractPublicKeyFromDid: throws unless the did starts with 'did:key:z';
\* base58btc.decode(did.slice(8)).slice(2)
extractPublicKeyFromDid(did) ==
    IF did.method # "did:key:" \/ did.encoded = <<>> \/ did.encoded[1] # MULTIBASE_Z
    THEN Throw("Invalid DID format")
    ELSE
    LET multikey == base58btcDecode(did.encoded)
    IN  IF multikey.threw THEN multikey
        ELSE Return(Slice(multikey.value, 2, Len(multikey.value)))

\* the delegation behind a proof, and what atob and extract make of the proof:
\*   "ok"      extract resolves with { ok: delegation }
\*   "error"   extract resolves with { error }, an object with no signature,
\*             issuer or audience
\*   "falsy"   extract resolves with a value that is falsy
\*   "throws"  atob or extract throws
ExtractOutcomes == {"ok", "error", "falsy", "throws"}

Proof(extract, signature, data, issuer, audience) ==
    [extract |-> extract, signature |-> signature, data |-> data,
     issuer |-> issuer, audience |-> audience]

\* the results
Invalid(error, detail) ==
    [valid |-> FALSE, error |-> error, detail |-> detail,
     issuerDid |-> NullDid, audienceDid |-> NullDid]

Valid(delegation) ==
    [valid |-> TRUE, error |-> "", detail |-> "",
     issuerDid |-> delegation.issuer, audienceDid |-> delegation.audience]

\* the options verifyHardwareDelegation verifies the assertion against
delegationOptions(delegation, expectedOrigin) ==
    [expectedOrigin |-> expectedOrigin,
     expectedChallenge |-> SHA256(delegation.data),
     requireUserVerification |-> "true"]

\* the inner try block, given what its calls answered: decoded is
\* decodeWebAuthnVarsig's outcome on the signature (new Uint8Array(undefined)
\* is empty), verificationResult is verifyWebAuthnAssertion's result,
\* publicKey is extractPublicKeyFromDid's completion on the issuer and
\* signatureValid is verifyEd25519Signature's result
delegationTry(delegation, decoded, verificationResult, publicKey, signatureValid) ==
    IF ~decoded.ok THEN Throw(decoded.err)
    ELSE IF ~verificationResult.valid
    THEN Return(Invalid("WebAuthn verification failed", verificationResult.error))
    ELSE IF publicKey.threw THEN Throw(publicKey.message)
    ELSE IF ~signatureValid
    THEN Return(Invalid("Ed25519 signature verification failed", ""))
    ELSE Return(Valid(delegation))

\* the inner catch block: delegation.issuer.did() throws on an object that
\* has no issuer
delegationCatch(completion, proof) ==
    IF ~completion.threw THEN completion
    ELSE IF proof.extract = "error"
    THEN Throw("Cannot read properties of undefined")
    ELSE Return(Valid(proof))

\* the outer catch block
verificationCatch(completion) ==
    IF completion.threw
    THEN Return(Invalid("Verification error", completion.message))
    ELSE completion

verifyHardwareDelegation(proof, decoded, verificationResult, publicKey, signatureValid) ==
    verificationCatch(
        IF proof.extract = "throws" THEN Throw("atob")
        ELSE IF proof.extract = "falsy"
        THEN Return(Invalid("Failed to extract delegation", ""))
        ELSE delegationCatch(
                delegationTry(proof, decoded, verificationResult, publicKey,
                              signatureValid),
                proof))

----------------------------------------------------------------------------
(* Inputs of verifyHardwareDelegation *)

\* JSON.stringify(delegation.data)
DelegationData == {JsonEmptyObject, JsonNoChallenge}

IssuerSamples ==
    {Ed25519Dids[publicKey] : publicKey \in Ed25519Keys}
    \cup {P256Dids[publicKey] : publicKey \in P256Keys}
    \cup {DidWeb}

AudienceDid == createEd25519Did(CoordY)

\* extractPublicKeyFromDid's completion on each issuer, computed once
IssuerKeys == [did \in IssuerSamples \cup {NullDid} |-> extractPublicKeyFromDid(did)]

\* assertions over a delegation's data and over another challenge, with and
\* without user verification
DelegationAssertions ==
    {Assertion(createMockAuthenticatorData(f), createMockClientDataJSON(cd), s) :
        f \in {1, 5},
        cd \in SignedClientData
               \cup {ClientData("webauthn.get", "AQID", "https://example.com")},
        s \in {MockSignature(ED25519_SIG_LEN), createMockP256Signature}}

SignedAssertion(s) ==
    Assertion(createMockAuthenticatorData(5),
              createMockClientDataJSON(
                  ClientData("webauthn.get", DelegationChallenge,
                             "https://example.com")), s)

\* the envelope of an assertion over the delegation's data, of each algorithm
SignedEd25519Envelope ==
    encodeWebAuthnVarsig(SignedAssertion(MockSignature(ED25519_SIG_LEN)), "Ed25519")

SignedP256Envelope ==
    encodeWebAuthnVarsig(SignedAssertion(createMockP256Signature), "P-256")

\* delegation.signature: whole envelopes, every strict prefix of an envelope
\* of each algorithm, and envelopes under a foreign leading varint
DelegationSignatures ==
    {encodeWebAuthnVarsig(a, alg) : a \in DelegationAssertions, alg \in Algorithms}
    \cup {SubSeq(SignedEd25519Envelope, 1, k) :
            k \in 0 .. Len(SignedEd25519Envelope) - 1}
    \cup {SubSeq(SignedP256Envelope, 1, k) : k \in 0 .. Len(SignedP256Envelope) - 1}
    \cup {l \o SignedEd25519Envelope : l \in LeadSamples}

ProofSamples ==
    {Proof("ok", sig, d, i, AudienceDid) :
        sig \in DelegationSignatures, d \in DelegationData, i \in IssuerSamples}
    \cup {Proof(e, <<>>, JsonEmptyObject, NullDid, NullDid) :
            e \in ExtractOutcomes \ {"ok"}}

Ed25519Subtle == {lib \in SubtleSamples : lib.name = "Ed25519"}

----------------------------------------------------------------------------
(* verifyHardwareDelegation's operation *)

NoProof == Proof("throws", <<>>, <<>>, NullDid, NullDid)
NoKey == Return(<<>>)

InitDelegation ==
    /\ delegationProof = NoProof
    /\ verifierOrigin = ""
    /\ issuerKey = NoKey
    /\ verification = Invalid("", "")

\* a delegation proof arrives
LoadDelegation(proof) ==
    /\ op = "init"
    /\ op' = "delegation"
    /\ delegationProof' = proof
    /\ UNCHANGED <<num, buf, off, vres, envelopeVars, verifyVars, cryptoVars,
                   creationVars, serviceVars, signVars, verifierOrigin, issuerKey, verification>>

\* verification := await service.verifyHardwareDelegation(proof, origin); the
\* answers of the calls it makes are kept as the calls are reached
VerifyDelegation(origin, lib) ==
    /\ op = "delegation"
    /\ op' = "verifyHardwareDelegation"
    /\ verifierOrigin' = origin
    /\ subtle' = lib
    /\ outcome' = IF delegationProof.extract \in {"ok", "error"}
                  THEN decodeWebAuthnVarsig(delegationProof.signature)
                  ELSE NoDecoded
    /\ opts' = IF outcome'.ok THEN delegationOptions(delegationProof, origin)
               ELSE NoOptions
    /\ result' = IF outcome'.ok THEN verifyWebAuthnAssertion(outcome', opts').value
                 ELSE NoVerification
    /\ signedData' = IF result'.valid THEN reconstructSignedData(outcome') ELSE <<>>
    /\ issuerKey' = IF result'.valid
                    THEN IssuerKeys[delegationProof.issuer]
                    ELSE NoKey
    /\ verdict' = IF result'.valid /\ ~issuerKey'.threw
                  THEN verifyEd25519Signature(lib).value
                  ELSE FALSE
    /\ LET completion ==
              verifyHardwareDelegation(delegationProof, outcome', result',
                                       issuerKey', verdict')
       IN  verification' = completion.value /\ thrown' = completion.message
    /\ UNCHANGED <<num, buf, off, vres, assertion, algo, lead, envelope, cut,
                   creationVars, serviceVars, signVars, delegationProof>>

LoadSomeDelegation == op = "init" /\ \E proof \in ProofSamples : LoadDelegation(proof)

VerifySomeDelegation ==
    op = "delegation"
    /\ \E origin \in Origins, lib \in Ed25519Subtle : VerifyDelegation(origin, lib)

NextDelegation == LoadSomeDelegation \/ VerifySomeDelegation

----------------------------------------------------------------------------
(* HardwareUCANDelegationService: storeHardwareSigner, loadHardwareSigner *)

\* '0' .. '9', 'a' .. 'f'
HEX_DIGITS == <<48, 49, 50, 51, 52, 53, 54, 55, 56, 57, 97, 98, 99, 100, 101, 102>>

\* Array.from(bytes).map(b => b.toString(16).padStart(2, '0')).join('')
toHex(bytes) ==
    [i \in 1 .. 2 * Len(bytes) |->
        LET b == bytes[(i + 1) \div 2]
        IN  HEX_DIGITS[(IF i % 2 = 1 THEN b \div 16 ELSE b % 16) + 1]]

\* the value of a hexadecimal digit, -1 for any other character
HexValue(c) ==
    IF c >= 48 /\ c <= 57 THEN c - 48
    ELSE IF c >= 97 /\ c <= 102 THEN c - 87
    ELSE IF c >= 65 /\ c <= 70 THEN c - 55
    ELSE -1

\* parseInt(chunk, 16) as a Uint8Array takes it: the digits before the first
\* character that is none, and 0 for NaN
parseHexByte(chunk) ==
    IF HexValue(chunk[1]) < 0 THEN 0
    ELSE IF Len(chunk) = 1 \/ HexValue(chunk[2]) < 0 THEN HexValue(chunk[1])
    ELSE HexValue(chunk[1]) * 16 + HexValue(chunk[2])

\* new Uint8Array(text.match(/.{1,2}/g)!.map(byte => parseInt(byte, 16))); the
\* empty text matches nothing, and null.map throws
fromHex(text) ==
    IF text = <<>> THEN Throw("Cannot read properties of null")
    ELSE Return([i \in 1 .. (Len(text) + 1) \div 2 |->
                    parseHexByte(SubSeq(text, 2 * i - 1,
                        IF 2 * i <= Len(text) THEN 2 * i ELSE Len(text)))])

\* 'A' .. 'Z', 'a' .. 'z', '0' .. '9', '+', '/'
B64Char(v) ==
    IF v < 26 THEN v + 65
    ELSE IF v < 52 THEN v + 71
    ELSE IF v < 62 THEN v - 4
    ELSE IF v = 62 THEN 43
    ELSE 47

\* btoa(String.fromCharCode(...bytes)): four characters for every three
\* bytes, '=' where the last group has no byte
btoa(bytes) ==
    [j \in 1 .. 4 * ((Len(bytes) + 2) \div 3) |->
        LET g == 3 * ((j - 1) \div 4)
            k == (j - 1) % 4
            b1 == bytes[g + 1]
            b2 == IF g + 2 <= Len(bytes) THEN bytes[g + 2] ELSE 0
            b3 == IF g + 3 <= Len(bytes) THEN bytes[g + 3] ELSE 0
        IN  IF k = 0 THEN B64Char(b1 \div 4)
            ELSE IF k = 1 THEN B64Char((b1 % 4) * 16 + b2 \div 16)
            ELSE IF k = 2
            THEN (IF g + 2 <= Len(bytes) THEN B64Char((b2 % 16) * 4 + b3 \div 64)
                  ELSE 61)
            ELSE (IF g + 3 <= Len(bytes) THEN B64Char(b3 % 64) ELSE 61)]

\* localStorage's item: absent, JSON.stringify(info) of a HardwareSignerInfo,
\* or a text that is no JSON
NoItem == [kind |-> "none", credentialId |-> <<>>, did |-> NullDid, publicKey |-> <<>>]
HardwareSignerInfo(credentialId, did, publicKey) ==
    [kind |-> "info", credentialId |-> credentialId, did |-> did,
     publicKey |-> publicKey]
NotJsonItem == [NoItem EXCEPT !.kind = "text"]

\* mutant: the record keeps the credential id's bytes as they are
storeHardwareSigner_RawId(self) ==
    HardwareSignerInfo(self.credentialId, self.did, toHex(self.publicKey))

\* storeHardwareSigner: the item it sets
storeHardwareSigner(self) ==
    HardwareSignerInfo(btoa(self.credentialId), self.did, toHex(self.publicKey))

NotLoaded == [loaded |-> FALSE, signer |-> NullSigner]

\* loadHardwareSigner: false without an item, false when JSON.parse, match or
\* atob throws; otherwise this.hardwareSigner is a new WebAuthnEd25519Signer
loadHardwareSigner(stored) ==
    IF stored.kind # "info" THEN NotLoaded
    ELSE
    LET publicKey == fromHex(stored.publicKey)
        credentialId == atob(stored.credentialId)
    IN  IF publicKey.threw \/ ~credentialId.ok THEN NotLoaded
        ELSE [loaded |-> TRUE,
              signer |-> WebAuthnEd25519Signer(credentialId.bytes, stored.did,
                                               publicKey.value)]

----------------------------------------------------------------------------
(* Inputs of the service *)

MaxInit == 2            \* calls of initializeHardwareSigner in a run

Services == {"a", "b"}

\* the credential of the k-th ceremony, 0 for one of an earlier session, as
\* the signer createWebAuthnEd25519Credential returns for it
CredentialId(k) == [i \in 1 .. (k % 3) + 1 |-> 200 + 3 * k + i]
CredentialKey(k) == [i \in 1 .. 32 |-> (i * 5 + 11 * k) % 256]

ServiceSigners ==
    [k \in 0 .. MaxInit + 1, algorithm \in Algorithms |->
        IF algorithm = "Ed25519"
        THEN WebAuthnEd25519Signer(CredentialId(k),
                 createEd25519Did(CredentialKey(k)), CredentialKey(k))
        ELSE WebAuthnP256Signer(CredentialId(k),
                 createP256Did(<<4>> \o CredentialKey(k) \o CoordY),
                 <<4>> \o CredentialKey(k) \o CoordY)]

\* what the storage holds when the first service is constructed: nothing, the
\* record of a signer of an earlier session, a record whose credential id is
\* no base64, or a text that is no JSON
StoredSamples ==
    {NoItem, NotJsonItem,
     HardwareSignerInfo(<<33>>, ServiceSigners[0, "Ed25519"].did,
                        toHex(ServiceSigners[0, "Ed25519"].publicKey))}
    \cup {storeHardwareSigner(ServiceSigners[0, algorithm]) : algorithm \in Algorithms}

----------------------------------------------------------------------------
(* HardwareUCANDelegationService: initializeHardwareSigner *)

\* a call: where it stands, what its load answered and set, the ceremony it
\* started and the signer that gave, its result, and the storage, the signer
\* behind the stored record and the service's signer as the call found and
\* left them
IdleInit ==
    [at |-> "idle", service |-> "", loaded |-> FALSE, loadedSigner |-> NullSigner,
     ceremony |-> 0, created |-> NullSigner, value |-> FALSE,
     storageBefore |-> NoItem, storedBefore |-> NullSigner,
     signerBefore |-> NullSigner,
     storageAfter |-> NoItem, signerAfter |-> NullSigner]

InitService ==
    /\ storage = NoItem
    /\ storedSigner = NullSigner
    /\ hardwareSigner = [s \in Services |-> NullSigner]
    /\ initCalls = [c \in 1 .. MaxInit |-> IdleInit]
    /\ ceremoniesStarted = 0
    /\ credentialsCreated = 0
    /\ overlapped = FALSE

\* the signer a stored record was written for
SignerOf(stored) ==
    IF stored \in {storeHardwareSigner(ServiceSigners[0, algorithm]) :
                      algorithm \in Algorithms}
    THEN CHOOSE self \in {ServiceSigners[0, algorithm] : algorithm \in Algorithms} :
            storeHardwareSigner(self) = stored
    ELSE NullSigner

\* the call returns: the service and the storage as the call leaves them
Returns(c, value, signers, item) ==
    [initCalls EXCEPT ![c] =
        [@ EXCEPT !.at = "returned", !.value = value,
                  !.storageAfter = item,
                  !.signerAfter = signers[initCalls[c].service]]]

\* initializeHardwareSigner is called on a service: loadHardwareSigner runs
\* up to its return, and the call awaits it
InitializeCall(c, s) ==
    /\ initCalls[c].at = "idle"
    /\ \A d \in 1 .. c - 1 : initCalls[d].at # "idle"
    /\ overlapped' = (overlapped \/ \E d \in 1 .. c - 1 : initCalls[d].at # "returned")
    /\ LET load == loadHardwareSigner(storage)
       IN  /\ hardwareSigner' = IF load.loaded
                                THEN [hardwareSigner EXCEPT ![s] = load.signer]
                                ELSE hardwareSigner
           /\ initCalls' = [initCalls EXCEPT ![c] =
                  [@ EXCEPT !.at = "load", !.service = s, !.loaded = load.loaded,
                            !.loadedSigner = load.signer,
                            !.storageBefore = storage,
                            !.storedBefore = storedSigner,
                            !.signerBefore = hardwareSigner[s]]]
    /\ UNCHANGED <<storage, storedSigner, ceremoniesStarted, credentialsCreated,
                   codecVars, creationVars, signVars>>

\* after the load: true with a loaded signer, and otherwise
\* createWebAuthnEd25519Credential is called and awaited
AfterLoad(c) ==
    /\ initCalls[c].at = "load"
    /\ IF initCalls[c].loaded
       THEN /\ initCalls' = Returns(c, TRUE, hardwareSigner, storage)
            /\ UNCHANGED ceremoniesStarted
       ELSE /\ ceremoniesStarted' = ceremoniesStarted + 1
            /\ initCalls' = [initCalls EXCEPT ![c] =
                   [@ EXCEPT !.at = "create", !.ceremony = ceremoniesStarted']]
    /\ UNCHANGED <<storage, storedSigner, hardwareSigner, credentialsCreated,
                   overlapped, codecVars, creationVars, signVars>>

\* createWebAuthnEd25519Credential returns null or a signer of either class;
\* with a signer storeHardwareSigner runs up to its return, where
\* localStorage.setItem stores the record or throws, and the call awaits it
CredentialResolves(c, algorithm, stores) ==
    /\ initCalls[c].at = "create"
    /\ IF algorithm = "null"
       THEN /\ initCalls' = Returns(c, FALSE, hardwareSigner, storage)
            /\ UNCHANGED <<storage, storedSigner, credentialsCreated>>
       ELSE /\ credentialsCreated' = credentialsCreated + 1
            /\ IF stores
               THEN /\ storage' = storeHardwareSigner(
                                      ServiceSigners[initCalls[c].ceremony, algorithm])
                    /\ storedSigner' = ServiceSigners[initCalls[c].ceremony, algorithm]
                    /\ initCalls' = [initCalls EXCEPT ![c] =
                          [@ EXCEPT !.at = "store", !.created = storedSigner']]
               ELSE /\ initCalls' = Returns(c, FALSE, hardwareSigner, storage)
                    /\ UNCHANGED <<storage, storedSigner>>
    /\ UNCHANGED <<hardwareSigner, ceremoniesStarted, overlapped, codecVars,
                   creationVars, signVars>>

\* after the store: this.hardwareSigner = signer; return true
AfterStore(c) ==
    /\ initCalls[c].at = "store"
    /\ hardwareSigner' = [hardwareSigner EXCEPT ![initCalls[c].service] =
                             initCalls[c].created]
    /\ initCalls' = Returns(c, TRUE, hardwareSigner', storage)
    /\ UNCHANGED <<storage, storedSigner, ceremoniesStarted, credentialsCreated,
                   overlapped, codecVars, creationVars, signVars>>

InitializeSomeCall ==
    \E c \in 1 .. MaxInit, s \in Services : InitializeCall(c, s)

AfterSomeLoad == \E c \in 1 .. MaxInit : AfterLoad(c)

CredentialSomeResolves ==
    \E c \in 1 .. MaxInit, algorithm \in Algorithms \cup {"null"}, stores \in BOOLEAN :
        CredentialResolves(c, algorithm, stores)

AfterSomeStore == \E c \in 1 .. MaxInit : AfterStore(c)

NextService ==
    \/ InitializeSomeCall
    \/ AfterSomeLoad
    \/ CredentialSomeResolves
    \/ AfterSomeStore

----------------------------------------------------------------------------
(* The specification *)

vars == <<varintVars, envelopeVars, verifyVars, hardwareVars>>

Init == op = "init" /\ InitVarint /\ InitEnvelope /\ InitCrypto /\ InitCreation
        /\ InitSign /\ InitDelegation /\ InitService

Next == NextVarint \/ NextEnvelope \/ NextCrypto \/ NextDelegation

Spec == Init /\ [][Next]_vars

\* The signer: its negotiation and its ceremonies. A ceremony resolves or
\* rejects (its request carries timeout: 60000), and an awaited extraction
\* completes.
NextSigner == NextCreation \/ NextSign

SignerFairness ==
    /\ WF_vars(CeremonySomeResolves)
    /\ WF_vars(ExtractStrong)
    /\ WF_vars(ExtractFallback)

SignerSpec == Init /\ [][NextSigner]_vars /\ SignerFairness

\* The service, over a storage that holds what an earlier session left
InitStored ==
    /\ op = "init" /\ InitVarint /\ InitEnvelope /\ InitCrypto /\ InitCreation
    /\ InitSign /\ InitDelegation
    /\ storage \in StoredSamples
    /\ storedSigner = SignerOf(storage)
    /\ hardwareSigner = [s \in Services |-> NullSigner]
    /\ initCalls = [c \in 1 .. MaxInit |-> IdleInit]
    /\ ceremoniesStarted = 0
    /\ credentialsCreated = 0
    /\ overlapped = FALSE

ServiceSpec == InitStored /\ [][NextService]_vars

----------------------------------------------------------------------------
(* LEB128, stated without the codec *)

\* the length of the continuation-terminated run of bytes at offset, 0 when
\* the buffer ends before a byte without the continuation bit
RECURSIVE RunLength(_, _)
RunLength(bytes, offset) ==
    IF offset >= Len(bytes) THEN 0
    ELSE IF bytes[offset + 1] < 128 THEN 1
    ELSE LET rest == RunLength(bytes, offset + 1)
         IN  IF rest = 0 THEN 0 ELSE rest + 1

\* the sum of the 7-bit digits run[from .. to], the first of weight 1
RECURSIVE Digits(_, _, _)
Digits(run, from, to) ==
    IF from > to THEN 0 ELSE (run[from] % 128) + 128 * Digits(run, from + 1, to)

Min(a, b) == IF a <= b THEN a ELSE b

\* the value of a run, in limbs: four digits to a limb
LebValue(run) == Big(Digits(run, 5, Min(Len(run), 8)), Digits(run, 1, Min(Len(run), 4)))

\* the value fits the limbs, and a double holds it exactly (it is below 2^53)
Lossless(run) ==
    /\ \A i \in 9 .. Len(run) : run[i] % 128 = 0
    /\ LebValue(run).hi < 33554432

\* bytes is the (minimal) LEB128 encoding of n, 0 <= n < 2^28
IsVarintOf(bytes, n) ==
    /\ Len(bytes) \in 1 .. 4
    /\ n < 128 ^ Len(bytes)
    /\ Len(bytes) = 1 \/ n >= 128 ^ (Len(bytes) - 1)
    /\ \A i \in 1 .. Len(bytes) :
          bytes[i] = ((n \div (128 ^ (i - 1))) % 128) + (IF i < Len(bytes) THEN 128 ELSE 0)

\* the signature length rule of an algorithm
ValidSigLen(alg, n) == IF alg = "Ed25519" THEN n = 64 ELSE n >= 64 /\ n <= 74

\* the tag of an algorithm
TagOf(alg) == IF alg = "Ed25519" THEN 11985 ELSE 8790

\* an envelope of the encoder, not truncated, has just been decoded
DecodedWhole == op = "decode" /\ algo \in Algorithms /\ cut = 0
\* a strict prefix of an envelope of the encoder has just been decoded
DecodedPrefix == op = "decode" /\ algo \in Algorithms /\ cut > 0

----------------------------------------------------------------------------
(* The claims *)

\* C1: an assertion whose signature length satisfies its algorithm's rule,
\* encoded and then decoded, comes back with the same algorithm, that
\* algorithm's tag and the same authenticatorData, clientDataJSON and signature.
C1_RoundTrip ==
    (DecodedWhole /\ ValidSigLen(algo, Len(assertion.signature))) =>
        /\ outcome.ok
        /\ outcome.algorithm = algo
        /\ outcome.multicodec = TagOf(algo)
        /\ outcome.authenticatorData = assertion.authenticatorData
        /\ outcome.clientDataJSON = assertion.clientDataJSON
        /\ outcome.signature = assertion.signature

C1_Witness ==
    /\ DecodedWhole /\ algo = "P-256" /\ outcome.ok
    /\ Len(assertion.signature) = 70
    /\ Len(outcome.authenticatorData) = 130
    /\ Len(outcome.clientDataJSON) > 0

\* C2 (as stated): every strict prefix of a valid envelope fails to decode, and
\* the decoder reads no byte at or after the prefix's end.
C2_EveryPrefixFails ==
    (DecodedPrefix /\ ValidSigLen(algo, Len(assertion.signature))) =>
        ~outcome.ok /\ outcome.last < Len(envelope)

\* C2 (amended): a strict prefix of a valid envelope decodes exactly when the
\* envelope is P-256 and the prefix keeps at least 64 bytes of the signature;
\* it then decodes to the envelope with the signature cut short.  Every other
\* strict prefix, and every strict prefix of an Ed25519 envelope, fails.  The
\* decoder reads no byte at or after the prefix's end.
C2_PrefixFailsUnlessP256Signature ==
    (DecodedPrefix /\ ValidSigLen(algo, Len(assertion.signature))) =>
        /\ outcome.last < Len(envelope)
        /\ outcome.ok <=> (algo = "P-256" /\ Len(assertion.signature) - cut >= 64)
        /\ outcome.ok =>
              /\ outcome.authenticatorData = assertion.authenticatorData
              /\ outcome.clientDataJSON = assertion.clientDataJSON
              /\ outcome.signature =
                    SubSeq(assertion.signature, 1, Len(assertion.signature) - cut)

C2_Witness ==
    /\ DecodedPrefix /\ algo = "P-256" /\ Len(assertion.signature) = 70
    /\ cut = 6 /\ outcome.ok /\ Len(outcome.signature) = 64

\* C3: a returned envelope's signature has 64 bytes under Ed25519 and 64 to 74
\* bytes under P-256; an input whose bytes after clientDataJSON have another
\* length fails with the invalid-signature-length error of its algorithm.
C3_SignatureLength ==
    /\ (op = "decode" /\ outcome.ok) =>
          ValidSigLen(outcome.algorithm, Len(outcome.signature))
    /\ (op = "decode" /\ algo \in Algorithms /\ cut <= Len(assertion.signature)
        /\ ~ValidSigLen(algo, Len(assertion.signature) - cut)) =>
          /\ ~outcome.ok
          /\ outcome.err = IF algo = "Ed25519" THEN "Invalid Ed25519 signature length"
                           ELSE "Invalid P-256 signature length"

C3_Witness ==
    /\ DecodedWhole /\ algo = "P-256" /\ Len(assertion.signature) = 200
    /\ outcome.err = "Invalid P-256 signature length"

\* C4: an input whose leading varint has a value other than 0x2ed1 and 0x2256
\* fails with the unsupported-algorithm error, and nothing behind the leading
\* varint is read.
C4_TagRejection ==
    (op = "decode" /\ Len(envelope) >= Len(lead)
     /\ LebValue(lead) # ToBig(11985) /\ LebValue(lead) # ToBig(8790)) =>
        /\ ~outcome.ok
        /\ outcome.err = "Unsupported multicodec"
        /\ outcome.last < Len(lead)

\* C5: the encoder's output is varint(tag) || varint(len(a)) || a ||
\* varint(len(c)) || c || s: the signature last with no length before it.
C5_EncodeLayout ==
    (op = "encode" /\ algo \in Algorithms /\ cut = 0) =>
        \E i \in 1 .. 4, j \in 1 .. 4, k \in 1 .. 4 :
            LET a == assertion.authenticatorData
                c == assertion.clientDataJSON
                sig == assertion.signature
                p1 == i
                p2 == p1 + j
                p3 == p2 + Len(a)
                p4 == p3 + k
                p5 == p4 + Len(c)
            IN  /\ Len(envelope) = i + j + Len(a) + k + Len(c) + Len(sig)
                /\ IsVarintOf(SubSeq(envelope, 1, p1), TagOf(algo))
                /\ IsVarintOf(SubSeq(envelope, p1 + 1, p2), Len(a))
                /\ SubSeq(envelope, p2 + 1, p3) = a
                /\ IsVarintOf(SubSeq(envelope, p3 + 1, p4), Len(c))
                /\ SubSeq(envelope, p4 + 1, p5) = c
                /\ SubSeq(envelope, p5 + 1, Len(envelope)) = sig

C5_Witness ==
    /\ op = "encode" /\ algo = "Ed25519" /\ cut = 0
    /\ Len(assertion.authenticatorData) = 130
    /\ Len(assertion.clientDataJSON) > 0
    /\ Len(assertion.signature) = 64
    /\ SubSeq(envelope, 1, 4) = <<209, 93, 130, 1>>

\* C6: for n in [0, 2^32), a prefix p and a suffix t, decoding
\* p || varintEncode(n) || t at len(p) returns n and the encoded length; 300
\* encodes as AC 02.
C6_VarintRoundTrip ==
    (op = "varintRoundTrip") =>
        /\ vres.ok
        /\ vres.value >= 0
        /\ ToBig(vres.value) = num
        /\ vres.bytesRead = Len(varintEncode(num))
        /\ num = Big(0, 300) => SubSeq(buf, off + 1, off + vres.bytesRead) = <<172, 2>>

\* C7: varintDecode returns the LEB128 value of the run at the offset and the
\* run's length, or fails: incomplete when the buffer ends inside the run,
\* too large when no double holds the run's value exactly.
C7_VarintDecodeExact ==
    (op \in {"varintDecode", "varintRoundTrip"}) =>
        LET n == RunLength(buf, off)
            run == SubSeq(buf, off + 1, off + n)
        IN  IF vres.ok
            THEN /\ n > 0
                 /\ vres.bytesRead = n
                 /\ Lossless(run)
                 /\ vres.value >= 0
                 /\ ToBig(vres.value) = LebValue(run)
            ELSE \/ vres.err = "Varint incomplete" /\ n = 0
                 \/ vres.err = "Varint too large" /\ n > 0 /\ ~Lossless(run)

\* the bytes a known challenge text encodes (base64url), as a table
ChallengeBytes(c) == IF c = "AQID" THEN <<1, 2, 3>> ELSE <<251, 255>>

UpSet(ad) == ad[33] % 2 = 1
UvSet(ad) == (ad[33] \div 4) % 2 = 1

\* the error of the first check that fails, "" when every check passes:
\* parse, type, origin, challenge, length, UP, UV
FirstFailure(d, o) ==
    LET text == d.clientDataJSON
        ad == d.authenticatorData
    IN  IF text \in {JsonNull, NotJson, <<>>} THEN "Verification failed"
        ELSE IF text = JsonEmptyObject THEN "Invalid ceremony type"
        ELSE IF text = JsonNoChallenge
        THEN (IF o.expectedOrigin # "https://example.com" THEN "Origin mismatch"
              ELSE "Verification failed")
        ELSE
    LET cd == CHOOSE x \in KnownClientData : createMockClientDataJSON(x) = text
    IN  IF cd.type # "webauthn.get" THEN "Invalid ceremony type"
        ELSE IF cd.origin # o.expectedOrigin THEN "Origin mismatch"
        ELSE IF cd.challenge = "A" THEN "Verification failed"
        ELSE IF ChallengeBytes(cd.challenge) # o.expectedChallenge
        THEN "Challenge mismatch"
        ELSE IF Len(ad) < 37 THEN "Invalid authenticatorData length"
        ELSE IF ~UpSet(ad) THEN "User presence (UP) flag not set"
        ELSE IF o.requireUserVerification # "false" /\ ~UvSet(ad)
        THEN "User verification (UV) flag not set"
        ELSE ""

\* C8: the result is valid exactly when clientDataJSON parses, its type is
\* webauthn.get, its origin is the expected origin, its challenge decodes to
\* the expected challenge, authenticatorData has 37 bytes or more, UP is set,
\* and UV is set unless requireUserVerification is false; a failure is that
\* of the first of these checks that fails.
C8_FirstFailingCheck ==
    (op = "verify") =>
        /\ result.valid <=> FirstFailure(outcome, opts) = ""
        /\ result.error = FirstFailure(outcome, opts)

C8_Witness ==
    /\ op = "verify"
    /\ outcome.clientDataJSON =
          createMockClientDataJSON(ClientData("webauthn.get", "-_8", "https://evil.com"))
    /\ opts.expectedOrigin = "https://example.com"
    /\ opts.expectedChallenge = <<1, 2, 4>>
    /\ Len(outcome.authenticatorData) >= 37
    /\ outcome.authenticatorData[33] = 0
    /\ result.error = "Origin mismatch"

\* the type, origin, challenge and length checks pass
PassesUpToFlags ==
    /\ \E cd \in KnownClientData :
          /\ outcome.clientDataJSON = createMockClientDataJSON(cd)
          /\ cd.type = "webauthn.get"
          /\ cd.origin = opts.expectedOrigin
          /\ cd.challenge # "A"
          /\ ChallengeBytes(cd.challenge) = opts.expectedChallenge
    /\ Len(outcome.authenticatorData) >= 37

\* C9: with UP set and UV clear, an envelope that passes the earlier checks is
\* valid when requireUserVerification is false, and fails as user-not-verified
\* when it is true or omitted.
C9_UserVerificationGate ==
    (op = "verify" /\ PassesUpToFlags
     /\ UpSet(outcome.authenticatorData) /\ ~UvSet(outcome.authenticatorData)) =>
        IF opts.requireUserVerification = "false"
        THEN result.valid
        ELSE ~result.valid /\ result.error = "User verification (UV) flag not set"

C9_Witness ==
    /\ op = "verify" /\ PassesUpToFlags
    /\ outcome.authenticatorData[33] = 1
    /\ opts.requireUserVerification = Undefined
    /\ result.error = "User verification (UV) flag not set"

\* C10: verifying again an envelope that differs only in a signature byte or
\* in its algorithm tag, with the same options, gives the same result.
C10_SignatureIndependent ==
    [][op' = "reverify" => result' = result]_vars

C10_Witness ==
    /\ op = "reverify"
    /\ result.valid
    /\ outcome.signature # assertion.signature
    /\ outcome.authenticatorData = assertion.authenticatorData
    /\ outcome.clientDataJSON = assertion.clientDataJSON

\* C11: verifyWebAuthnAssertion throws nothing; every failure, that of an
\* unparseable clientDataJSON and of an undecodable challenge included, is a
\* result with valid = false and an error text, and such a result carries no
\* clientData and no flags.
C11_VerifyNeverThrows ==
    (op \in {"verify", "reverify"}) =>
        /\ thrown = ""
        /\ ~result.valid =>
              result.error # "" /\ result.clientData = <<>> /\ result.flags = <<>>
        /\ outcome.clientDataJSON \in {NotJson, JsonNull, <<>>} =>
              ~result.valid /\ result.error = "Verification failed"
        /\ (\E cd \in KnownClientData :
               /\ cd.type = "webauthn.get" /\ cd.origin = opts.expectedOrigin
               /\ cd.challenge = "A"
               /\ outcome.clientDataJSON = createMockClientDataJSON(cd)) =>
              ~result.valid /\ result.error = "Verification failed"

C11_Witness ==
    /\ op = "verify"
    /\ outcome.clientDataJSON = NotJson
    /\ thrown = ""
    /\ ~result.valid
    /\ result.error = "Verification failed"
    /\ result.clientData = <<>>

\* C12: verifyEd25519Signature and verifyP256Signature throw nothing and
\* return a boolean; a rejection of the key import or of the verify call is
\* returned as false.
C12_CryptoVerifiersTotal ==
    (op = "cryptoVerify") =>
        /\ thrown = ""
        /\ verdict \in BOOLEAN
        /\ (subtle.importKey = "rejects" \/ subtle.verify = "rejects") => ~verdict
        /\ verdict <=> (subtle.importKey = "key" /\ subtle.verify = "true")

C12_Witness ==
    /\ op = "cryptoVerify"
    /\ subtle.name = "Ed25519"
    /\ subtle.importKey = "rejects"
    /\ thrown = ""
    /\ verdict = FALSE

\* C13: reconstructSignedData returns authenticatorData followed by the
\* SHA-256 digest of clientDataJSON and nothing else, and returns the same for
\* an envelope that differs only in its signature or its algorithm tag.
C13_SignedData ==
    /\ [](op \in {"reconstruct", "reconstructAgain"} =>
            /\ Len(signedData) = Len(outcome.authenticatorData) + 32
            /\ SubSeq(signedData, 1, Len(outcome.authenticatorData))
                  = outcome.authenticatorData
            /\ SubSeq(signedData, Len(outcome.authenticatorData) + 1, Len(signedData))
                  = SHA256(outcome.clientDataJSON))
    /\ [][op' = "reconstructAgain" => signedData' = signedData]_vars

C13_Witness ==
    /\ op = "reconstructAgain"
    /\ outcome.signature # assertion.signature
    /\ Len(outcome.authenticatorData) = 130
    /\ Len(signedData) = 162
    /\ SubSeq(signedData, 131, 134) = <<133, 153, 212, 205>>

\* C14: once the ceremony has returned a credential, the call returns the
\* Ed25519 signer exactly when Ed25519 extraction succeeds on the credential's
\* attestation, the P-256 signer exactly when that fails and P-256 extraction
\* succeeds, and null exactly when both fail (an RSA key); P-256 extraction is
\* run only after Ed25519 extraction has failed.
C14_Negotiation ==
    LET att == credential.attestationObject
        ed == extractEd25519PublicKey(att)
        p256 == extractP256PublicKey(att)
    IN  /\ (pc = "returned" /\ credential.kind = "credential") =>
              /\ signer.algorithm = "Ed25519" <=> ~ed.null
              /\ signer.algorithm = "P-256" <=> (ed.null /\ ~p256.null)
              /\ signer = NullSigner <=> (ed.null /\ p256.null)
              /\ att = Ed25519Attestation =>
                    signer.algorithm = "Ed25519" /\ signer.publicKey = CoordX
              /\ att = P256Attestation =>
                    /\ signer.algorithm = "P-256"
                    /\ signer.publicKey = <<4>> \o CoordX \o CoordY
              /\ att = RsaAttestation => signer = NullSigner
        /\ \A i \in DOMAIN extractions :
              extractions[i].extractor = "P-256" =>
                 i = 2 /\ extractions[1].extractor = "Ed25519" /\ ed.null

C14_Witness ==
    /\ pc = "returned"
    /\ credential = Credential(P256Attestation)
    /\ signer.algorithm = "P-256"
    /\ Len(extractions) = 2

\* C15: one call starts at most one creation ceremony, and both extractors are
\* given the attestation object of that ceremony's response.
C15_OneCeremony ==
    /\ created <= 1
    /\ \A i \in DOMAIN extractions :
          /\ created = 1
          /\ credential.kind = "credential"
          /\ extractions[i].attestationObject = credential.attestationObject

C15_Witness ==
    /\ pc = "returned"
    /\ created = 1
    /\ Len(extractions) = 2
    /\ extractions[2].extractor = "P-256"
    /\ extractions[2].attestationObject = RsaAttestation
    /\ extractions[1].attestationObject = RsaAttestation

\* C16: a call whose ceremony resolves or rejects ends, by returning the
\* Ed25519 signer, the P-256 signer or null, and throws nothing; missing
\* support, a rejected ceremony, a null credential and a failed extraction end
\* it with null.
C16_Terminates ==
    /\ [](raised = "")
    /\ [](pc = "returned" =>
            /\ signer.algorithm \in {"Ed25519", "P-256", "null"}
            /\ cause \in {"unsupported", "cancelled", "transport", "unavailable"}
                  <=> signer = NullSigner)
    /\ (pc \in {"create", "extractEd25519", "extractP256"}) ~> (pc = "returned")

C16_Witness ==
    /\ pc = "returned"
    /\ credential = Rejection("UnknownError")
    /\ cause = "transport"
    /\ signer = NullSigner
    /\ raised = ""

\* C17: a ceremony ended by cancellation or timeout, a credential from which
\* no key can be extracted, and a hardware or transport error are reported to
\* the caller by three different returned values.
C17_DistinctStatuses ==
    \A p, q \in seen :
        (/\ p[1] \in {"cancelled", "unavailable", "transport"}
         /\ q[1] \in {"cancelled", "unavailable", "transport"}
         /\ p[1] # q[1]) => <<p[2], p[3]>> # <<q[2], q[3]>>

\* the calls of sign that have made their request
Started == {c \in 1 .. MaxSign : signCalls[c].at \in {"get", "returned", "threw"}}

\* C18: every call of sign starts one assertion ceremony of its own, whose
\* challenge is the SHA-256 digest of the call's payload and whose allowed
\* credential is the signer's; the envelope a call returns is the encoding of
\* its own ceremony's response under the tag of the signer's algorithm.
C18_OneCeremonyPerCall ==
    /\ Len(ceremonies) = Cardinality(Started)
    /\ \A c \in 1 .. MaxSign : c \notin Started => signCalls[c].ceremony = 0
    /\ \A c \in Started :
          /\ signCalls[c].ceremony \in 1 .. Len(ceremonies)
          /\ ceremonies[signCalls[c].ceremony].challenge = SHA256(signCalls[c].payload)
          /\ Len(ceremonies[signCalls[c].ceremony].challenge) = 32
          /\ ceremonies[signCalls[c].ceremony].allowCredential = signer.credentialId
    /\ \A c, d \in Started : c # d => signCalls[c].ceremony # signCalls[d].ceremony
    /\ \A c \in Started :
          signCalls[c].at = "returned" =>
             LET answer == ceremonies[signCalls[c].ceremony].answer
                 a == answer.response
             IN  /\ answer.kind = "assertion"
                 /\ SubSeq(signCalls[c].envelope, 1, 2)
                       = IF signer.algorithm = "Ed25519" THEN <<209, 93>>
                         ELSE <<214, 68>>
                 /\ SubSeq(signCalls[c].envelope, 3, Len(signCalls[c].envelope))
                       = <<Len(a.authenticatorData)>> \o a.authenticatorData
                         \o <<Len(a.clientDataJSON)>> \o a.clientDataJSON
                         \o a.signature

C18_Witness ==
    /\ signer.algorithm = "P-256"
    /\ signCalls[1].at = "returned"
    /\ signCalls[2].at = "returned"
    /\ Len(ceremonies) = 2
    /\ signCalls[1].payload = signCalls[2].payload
    /\ signCalls[1].envelope # signCalls[2].envelope
    /\ signCalls[1].ceremony = 2

\* C19: at most one assertion ceremony of a signer is outstanding at any time.
C19_OneOutstanding ==
    Cardinality({k \in DOMAIN ceremonies : ceremonies[k].state = "pending"}) <= 1

\* The conditions under which the claim lets verifyHardwareDelegation answer
\* valid: the signature decodes, the decoded assertion passes the structural
\* verification against the delegation's data, the issuer's key is read
\* without an error, and crypto.subtle accepts the signature.
DelegationVerified ==
    /\ delegationProof.extract = "ok"
    /\ LET decoded == decodeWebAuthnVarsig(delegationProof.signature)
       IN  /\ decoded.ok
           /\ verifyWebAuthnAssertion(decoded,
                  delegationOptions(delegationProof, verifierOrigin)).value.valid
    /\ ~issuerKey.threw
    /\ subtle.importKey = "key"
    /\ subtle.verify = "true"

\* C20: verifyHardwareDelegation answers valid = true only for a delegation
\* whose signature decoded as an envelope and passed both the structural and
\* the cryptographic verification; a signature that does not decode, or an
\* exception after decoding, never gives valid = true.
C20_ValidOnlyWhenVerified ==
    (op = "verifyHardwareDelegation" /\ verification.valid) => DelegationVerified

\* verifyHardwareDelegation reached its cryptographic check: the envelope
\* decoded, passed the structural verification, and the issuer's key was read
CryptoCheckReached ==
    /\ op = "verifyHardwareDelegation"
    /\ delegationProof.extract = "ok"
    /\ outcome.ok
    /\ result.valid
    /\ ~issuerKey.threw

\* the length of a public key of an algorithm: 32 bytes, or 0x04 and two
\* 32-byte coordinates
PublicKeyLength(algorithm) ==
    IF algorithm = "Ed25519" THEN ED25519_KEY_LEN ELSE 1 + 2 * P256_COORD_LEN

\* C21: when the issuer's key is a key of the decoded envelope's algorithm
\* (32 bytes for Ed25519, 65 bytes for P-256), the cryptographic check that
\* verifyHardwareDelegation runs is the routine of that algorithm.
C21_CheckedByOwnRoutine ==
    (CryptoCheckReached /\ Len(issuerKey.value) = PublicKeyLength(outcome.algorithm))
        => subtle.name = outcome.algorithm

\* the multicodec tag of a public key, as a varint: ed25519-pub for 32 bytes,
\* p256-pub for 65
KeyTag(publicKey) ==
    varintEncodeInt(IF Len(publicKey) = ED25519_KEY_LEN THEN ED25519_PUB ELSE P256_PUB)

\* 'did:key:' followed by base58btc(tagBytes || publicKey), for each key
Identifiers ==
    [publicKey \in Ed25519Keys \cup P256Keys |->
        [method |-> "did:key:",
         encoded |-> base58btcEncode(KeyTag(publicKey) \o publicKey)]]

\* the tags are [0xed, 0x01] and [0x80, 0x24], and they differ
TagsAsWritten ==
    /\ \A publicKey \in Ed25519Keys : KeyTag(publicKey) = <<237, 1>>
    /\ \A publicKey \in P256Keys : KeyTag(publicKey) = <<128, 36>>
    /\ varintEncodeInt(ED25519_PUB) # varintEncodeInt(P256_PUB)

\* C23: the identifier of a key is 'did:key:' followed by
\* base58btc(tagBytes || publicKey), tagBytes being varintEncode(0xed) =
\* [0xed, 0x01] for a 32-byte Ed25519 key and varintEncode(0x1200) =
\* [0x80, 0x24] for a 65-byte P-256 key; the tags differ, and
\* extractPublicKeyFromDid on the identifier returns the key.
C23_IdentifierRoundTrip ==
    /\ TagsAsWritten
    /\ (op = "verifyHardwareDelegation" /\ result.valid
           /\ delegationProof.issuer.method = "did:key:")
        => \E publicKey \in Ed25519Keys \cup P256Keys :
              /\ delegationProof.issuer = Identifiers[publicKey]
              /\ issuerKey = Return(publicKey)

C23_Witness ==
    /\ op = "verifyHardwareDelegation"
    /\ result.valid
    /\ delegationProof.issuer = P256Dids[<<4>> \o CoordY \o CoordX]
    /\ issuerKey = Return(<<4>> \o CoordY \o CoordX)

\* the calls of initializeHardwareSigner that have returned
ReturnedCalls == {c \in 1 .. MaxInit : initCalls[c].at = "returned"}

\* C22: a signer that was stored and is loaded has the algorithm, the DID,
\* the public key and the credential id of the signer that was stored.
C22_ReloadedAsStored ==
    \A c \in 1 .. MaxInit :
        initCalls[c].loaded =>
            /\ initCalls[c].loadedSigner.algorithm = initCalls[c].storedBefore.algorithm
            /\ initCalls[c].loadedSigner.did = initCalls[c].storedBefore.did
            /\ initCalls[c].loadedSigner.publicKey = initCalls[c].storedBefore.publicKey
            /\ initCalls[c].loadedSigner.credentialId
                  = initCalls[c].storedBefore.credentialId

\* a stored item that can be read back: a record whose credential id is
\* base64 and whose key has digits
Readable(item) ==
    /\ item.kind = "info"
    /\ item.publicKey # <<>>
    /\ atob(item.credentialId).ok

\* C27: when the calls of initializeHardwareSigner run one after another, a
\* ceremony is started only without a readable stored record; after a call
\* that returned true every later call loads the stored record, starts no
\* ceremony, returns true and leaves the same DID; a call returns true
\* exactly when its service holds a signer afterwards; and a call that
\* returns false leaves the stored record and the service's signer as they
\* were.
C27_LoadsOnceCreated ==
    ~overlapped =>
        /\ \A c \in 1 .. MaxInit :
              initCalls[c].ceremony # 0 => ~Readable(initCalls[c].storageBefore)
        /\ \A c, d \in ReturnedCalls :
              (c < d /\ initCalls[c].value) =>
                  /\ initCalls[d].loaded
                  /\ initCalls[d].ceremony = 0
                  /\ initCalls[d].value
                  /\ initCalls[d].signerAfter.did = initCalls[c].signerAfter.did
        /\ \A c \in ReturnedCalls :
              /\ initCalls[c].value <=> initCalls[c].signerAfter # NullSigner
              /\ ~initCalls[c].value =>
                    /\ initCalls[c].storageAfter = initCalls[c].storageBefore
                    /\ initCalls[c].signerAfter = initCalls[c].signerBefore

C27_Witness ==
    /\ ~overlapped
    /\ ReturnedCalls = 1 .. MaxInit
    /\ initCalls[1].ceremony = 1
    /\ initCalls[1].value
    /\ initCalls[2].loaded
    /\ initCalls[2].value
    /\ initCalls[2].service # initCalls[1].service
    /\ initCalls[1].storageBefore = NotJsonItem

\* C28: when calls of initializeHardwareSigner overlap while no credential is
\* stored, at most one ceremony is started and at most one credential is
\* created, and once the calls have returned the stored record and the signer
\* of each service that holds one are of the same credential: the same DID
\* and the same credential id.
C28_OneCeremonyWhenOverlapping ==
    (overlapped /\ initCalls[1].storageBefore = NoItem) =>
        /\ ceremoniesStarted <= 1
        /\ credentialsCreated <= 1
        /\ ReturnedCalls = 1 .. MaxInit =>
              \A s \in Services :
                  hardwareSigner[s] # NullSigner =>
                      /\ hardwareSigner[s].did = storedSigner.did
                      /\ hardwareSigner[s].credentialId = storedSigner.credentialId

\* C24: sign returns no envelope of an assertion whose authenticatorData,
\* clientDataJSON or signature is empty, or whose signature has fewer than 64
\* bytes: the envelope a call returns is of an assertion that
\* validateWebAuthnAssertion accepts.
C24_ValidatedBeforeEncoding ==
    \A c \in 1 .. MaxSign :
        signCalls[c].at = "returned" =>
            ~validateWebAuthnAssertion(
                 ceremonies[signCalls[c].ceremony].answer.response).threw

\* the delegations that createHardwareDelegation gives when the ceremony was
\* held on the origin: over the data whose JSON text is '{}', under the
\* envelope of the assertion sign obtained for the bytes it was given
CreatedOn(origin) ==
    {Proof("ok",
           encodeWebAuthnVarsig(
               Assertion(createMockAuthenticatorData(5),
                         createMockClientDataJSON(
                             ClientData("webauthn.get", CreatedChallenge, origin)),
                         MockSignature(ED25519_SIG_LEN)), "Ed25519"),
           JsonEmptyObject, Ed25519Dids[publicKey], AudienceDid) :
        publicKey \in Ed25519Keys}

\* C25: a delegation that createHardwareDelegation created and nobody modified,
\* verified with the origin it was signed on, passes the challenge check: the
\* expected challenge verifyHardwareDelegation computes is the SHA-256 digest
\* of the bytes sign hashed into the ceremony's challenge.
C25_CreatedPassesChallenge ==
    \A origin \in Origins :
        (/\ op = "verifyHardwareDelegation"
         /\ verifierOrigin = origin
         /\ delegationProof \in CreatedOn(origin)
         /\ base64urlToBytes(
                parseClientDataJSON(outcome.clientDataJSON).value.challenge).bytes
              = SHA256(SignaturePayload))
        => /\ opts.expectedChallenge = SHA256(SignaturePayload)
           /\ result.error # "Challenge mismatch"

\* the attestation objects the claim names for each extractor: decodable, the
\* flag 0x40 set, and the COSE key of the type, algorithm, curve and lengths
IsEd25519Attestation(a) ==
    /\ a.cbor
    /\ (a.flags \div 64) % 2 = 1
    /\ a.coseKey.kty = 1 /\ a.coseKey.alg = -8 /\ a.coseKey.crv = 6
    /\ Len(a.coseKey.x) = 32

IsP256Attestation(a) ==
    /\ a.cbor
    /\ (a.flags \div 64) % 2 = 1
    /\ a.coseKey.kty = 2 /\ a.coseKey.alg = -7 /\ a.coseKey.crv = 1
    /\ Len(a.coseKey.x) = 32 /\ Len(a.coseKey.y) = 32

\* C26: on the attestation object of the credential a call received, the
\* Ed25519 extractor returns x exactly when the flag 0x40 is set and the COSE
\* key has kty 1, alg -8, crv 6 and an x of 32 bytes, and the P-256 extractor
\* returns 0x04 || x || y exactly when the flag is set and the key has kty 2,
\* alg -7, crv 1 and x and y of 32 bytes each; in every other case the
\* extractor returns null, so that the call goes on to the fallback after the
\* first extractor and ends without a signer after the second.
C26_ExtractorsExact ==
    LET a == credential.attestationObject
    IN  /\ Len(extractions) >= 1 =>
              /\ extractEd25519PublicKey(a)
                   = IF IsEd25519Attestation(a) THEN Key(a.coseKey.x) ELSE NullKey
              /\ IF IsEd25519Attestation(a)
                 THEN /\ pc = "returned" /\ Len(extractions) = 1
                      /\ signer.algorithm = "Ed25519"
                      /\ signer.publicKey = a.coseKey.x
                 ELSE pc = "extractP256" \/ Len(extractions) = 2
        /\ Len(extractions) = 2 =>
              /\ extractP256PublicKey(a)
                   = IF IsP256Attestation(a)
                     THEN Key(<<4>> \o a.coseKey.x \o a.coseKey.y)
                     ELSE NullKey
              /\ pc = "returned"
              /\ IF IsP256Attestation(a)
                 THEN /\ signer.algorithm = "P-256"
                      /\ signer.publicKey = <<4>> \o a.coseKey.x \o a.coseKey.y
                      /\ Len(signer.publicKey) = 65
                 ELSE signer = NullSigner /\ raised = ""

\* both extractors have run on an attestation object: the first returned null
\* for an EC2 key, the second returned the 65 bytes
C26_Witness ==
    /\ Len(extractions) = 2
    /\ pc = "returned"
    /\ IsP256Attestation(credential.attestationObject)
    /\ signer.publicKey
         = <<4>> \o credential.attestationObject.coseKey.x
                 \o credential.attestationObject.coseKey.y

\* an envelope has been accepted whose tag varint has the value of the tag
\* that was returned
AcceptedUnderItsTag ==
    op = "decode" /\ outcome.ok /\ LebValue(lead) = ToBig(outcome.multicodec)

\* C29: every byte string that decodeWebAuthnVarsig accepts is the one
\* encodeWebAuthnVarsig writes for the decoded algorithm, authenticatorData,
\* clientDataJSON and signature: a tag or a length in a varint other than the
\* shortest is not accepted.
C29_Canonical ==
    AcceptedUnderItsTag =>
        encodeWebAuthnVarsig(
            Assertion(outcome.authenticatorData, outcome.clientDataJSON,
                      outcome.signature), outcome.algorithm) = envelope

\* what decodeWebAuthnVarsig reads of varsig up to the signature: the three
\* varints and the offset after each of the five parts
Layout(varsig) ==
    LET m == varintDecode(varsig, 0)
        al == varintDecode(varsig, m.bytesRead)
        offset2 == m.bytesRead + al.bytesRead
        offset3 == AddJs(offset2, al.value)
        cl == varintDecode(varsig, offset3)
        offset4 == offset3 + cl.bytesRead
        offset5 == AddJs(offset4, cl.value)
    IN  [authDataLen |-> al.value, clientDataLen |-> cl.value,
         offsets |-> <<0, m.bytesRead, offset2, offset3, offset4, offset5>>]

\* C30: when decodeWebAuthnVarsig accepts an input, both lengths it decoded
\* are at least 0, the read offset never went down, and the tag varint, the
\* length varint, authenticatorData, the length varint, clientDataJSON and the
\* signature are consecutive slices of the input that cover it exactly.
C30_ConsecutiveSlices ==
    (op = "decode" /\ outcome.ok) =>
        LET layout == Layout(envelope)
            at == layout.offsets
        IN  /\ layout.authDataLen >= 0
            /\ layout.clientDataLen >= 0
            /\ \A i \in 1 .. 5 : at[i] <= at[i + 1]
            /\ at[6] <= Len(envelope)
            /\ outcome.authenticatorData = SubSeq(envelope, at[3] + 1, at[4])
            /\ outcome.clientDataJSON = SubSeq(envelope, at[5] + 1, at[6])
            /\ outcome.signature = SubSeq(envelope, at[6] + 1, Len(envelope))
            /\ at[2] + (at[3] - at[2]) + Len(outcome.authenticatorData)
                 + (at[5] - at[4]) + Len(outcome.clientDataJSON)
                 + Len(outcome.signature) = Len(envelope)

====
